---- MODULE Spec2Model ----
(***************************************************************************)
(* Model of the Ekos session analyzer: the streaming line parser           *)
(* (realtime_parser.py), the file watcher and monitoring loop              *)
(* (realtime_monitor.py) and the batch parser / aggregator                 *)
(* (ekos_analyzer.py).                                                     *)
(*                                                                         *)
(* Text is modelled as a sequence of pieces.  A piece is a string that    *)
(* stands for a run of characters: a word, a number, the separator ",",   *)
(* a blank " " or the line terminator "\n".  Splitting, stripping and     *)
(* numeric parsing work on these sequences the way the Python code works  *)
(* on characters.  Times are integral numbers of seconds.                  *)
(***************************************************************************)
EXTENDS Integers, Sequences, FiniteSets, TLC

VARIABLES
    config,      \* RealtimeAnalyzeParser constructor arguments
    parser,      \* RealtimeAnalyzeParser fields set by reset()
    lines,       \* lines handed to process_lines so far
    events,      \* events returned by process_lines, one list per line
    files,       \* the analyze directory: file name -> content
    mtime_order, \* file names, least recently modified first
    watcher,     \* AnalyzeFileWatcher: current_file, file_position
    returned,    \* lists returned by read_new_lines so far
    read_errors, \* errors logged by read_new_lines so far
    monitor,     \* RealtimeMonitor fields
    pc,          \* position of RealtimeMonitor.run
    new_file,    \* local variable new_file of the loop body
    now,         \* wall clock (datetime.now()), in minutes
    sent,        \* calls made to the notifier
    input,       \* session_files: the analyze files handed to the aggregator
    next_file,   \* index of the next file of aggregate_session_data's loop
    session_data,\* the session parsed from the file in hand, if any
    all_sessions,\* the sessions collected so far
    output,      \* the aggregated report, once returned
    parses       \* what the direct calls of parse_analyze_file returned

parserVars == <<config, parser, lines, events>>
watcherVars == <<files, mtime_order, watcher, returned, read_errors>>
monitorVars == <<monitor, pc, new_file, now, sent>>
batchVars == <<input, next_file, session_data, all_sessions, output, parses>>
vars == <<config, parser, lines, events, files, mtime_order, watcher,
          returned, read_errors, monitor, pc, new_file, now, sent, input, next_file,
          session_data, all_sessions, output, parses>>

(***************************************************************************)
(* Bounds                                                                  *)
(***************************************************************************)
MaxNum == 100          \* largest number that appears as text in a line
MaxGuideLines == 4     \* lines fed to the parser in SpecLost and SpecReacq
MaxPassLines == 3      \* lines fed to the parser in SpecPass
MaxStreamLines == 4    \* lines fed between two resets in SpecGuide
MaxCaptureLines == 3   \* lines fed to the parser in SpecCapture
MaxNoiseLines == 4     \* lines fed to the parser in SpecNoise
MaxFileLen == 4        \* pieces written to the file in SpecTail
MaxReads == 3          \* read_new_lines calls in SpecTail
MaxWrites == 2         \* lines appended to the directory in SpecMonitor
MaxNow == 61           \* last minute of the wall clock in SpecMonitor
MaxReadErrors == 1     \* failed reads of the watched file in SpecMonitor
MaxMountLines == 4     \* lines fed to the parser in SpecMount
MaxAlignLines == 3     \* lines fed to the parser in SpecAlign
MaxAfLines == 3        \* lines fed to the parser in SpecAf
MaxBatchLines == 3     \* lines of the file in SpecBatch
MaxBackfillLines == 3  \* lines of the file in SpecBackfill
MaxSegmentLines == 3   \* lines of the first file in SpecSegment
MaxObjectLines == 4    \* lines of the first file in SpecObjects
MaxPermuteLines == 2   \* lines of each file in SpecPermute
MaxHalfArcsec == 8     \* largest distance in SpecQuality, in half arcseconds
MaxWeightedLines == 7  \* lines of the file in SpecWeighted
MaxDurationLines == 3  \* lines of the file in SpecDuration
MaxGroups == 2         \* groups of the autofocus payload in SpecExtract
MaxSamples == 2        \* guide samples of a sub-session in SpecSamples
MaxReparseLines == 2   \* lines of the first file in SpecReparse
MaxParseCalls == 2     \* direct calls of parse_analyze_file in SpecReparse
MaxAbsoluteLines == 3  \* lines of the first file in SpecAbsolute
MaxEventLines == 3     \* lines of the file in SpecEvents
MaxPartitionLines == 3 \* lines of the first file in SpecPartition

(***************************************************************************)
(* Optional values: None or a one-element tuple.                           *)
(***************************************************************************)
None == <<>>
Some(v) == <<v>>
IsNone(o) == o = <<>>
Get(o) == o[1]

(***************************************************************************)
(* Text helpers                                                            *)
(***************************************************************************)
\* The numbers that appear as text: the small ones, and the later times at
\* which the idle-gap and autofocus windows of the aggregator open and close
LateNums == {500, 600, 1800, 1801, 3601, 7200, 7201}
Nums == (0..MaxNum) \cup LateNums
NumStrs == {ToString(n) : n \in Nums}
NumTable == [s \in NumStrs |-> CHOOSE n \in Nums : ToString(n) = s]

RECURSIVE LStrip(_)
LStrip(s) == IF s # <<>> /\ Head(s) = " " THEN LStrip(Tail(s)) ELSE s

RECURSIVE RStrip(_)
RStrip(s) ==
    IF s # <<>> /\ s[Len(s)] = " " THEN RStrip(SubSeq(s, 1, Len(s) - 1)) ELSE s

\* str.strip()
Strip(s) == RStrip(LStrip(s))

\* str.split(sep): always at least one (possibly empty) part
RECURSIVE SplitAcc(_, _, _, _)
SplitAcc(s, sep, cur, acc) ==
    IF s = <<>> THEN Append(acc, cur)
    ELSE IF Head(s) = sep THEN SplitAcc(Tail(s), sep, <<>>, Append(acc, cur))
    ELSE SplitAcc(Tail(s), sep, Append(cur, Head(s)), acc)

Split(s, sep) == SplitAcc(s, sep, <<>>, <<>>)

\* float(text): surrounding blanks are ignored, the rest must be one number
CanFloat(f) == LET t == Strip(f) IN Len(t) = 1 /\ t[1] \in NumStrs
Float(f) == NumTable[Strip(f)[1]]

\* Build the text of a line from its fields
RECURSIVE Join(_)
Join(fs) ==
    IF fs = <<>> THEN <<>>
    ELSE IF Len(fs) = 1 THEN <<fs[1]>>
    ELSE <<fs[1], ",">> \o Join(Tail(fs))

(***************************************************************************)
(* RealtimeAnalyzeParser                                                   *)
(***************************************************************************)

\* reset(): every field of the decode context
reset ==
    [ session_start_time      |-> None,
      session_timezone        |-> <<>>,
      capture_started_time    |-> None,
      capture_started_filter  |-> <<>>,
      capture_started_exposure |-> 0,
      af_started_time         |-> None,
      af_started_filter       |-> <<>>,
      af_started_temp         |-> 0,
      last_guide_state        |-> <<>>,
      last_guide_state_time   |-> 0,
      guiding_active          |-> FALSE,
      guide_lost_time         |-> None,
      guide_lost_alerted      |-> FALSE,
      reacquire_times         |-> <<>>,
      reacquire_alerted_at    |-> 0,
      align_in_progress       |-> FALSE,
      align_started_time      |-> None,
      mount_parking           |-> FALSE,
      current_job             |-> <<>>,
      session_start_dt        |-> None ]

\* Python truthiness of an Optional[float]: None and 0.0 are both false
Truthy(o) == ~IsNone(o) /\ Get(o) # 0

\* datetime.strptime on the two accepted formats: the texts that parse, with
\* the second of the day they denote
DateTable ==
    [ s \in {"2025-01-01 20:00:00", "2025-01-01 23:59:30.000"} |->
        IF s = "2025-01-01 20:00:00" THEN 72000 ELSE 86370 ]

_parse_session_start_time(time_str) ==
    IF Len(time_str) = 1 /\ time_str[1] \in DOMAIN DateTable
    THEN Some(DateTable[time_str[1]])
    ELSE None

\* strftime("%H:%M:%S") of anchor + offset, or the "<offset>s" fallback
_to_clock_time(p, offset_seconds) ==
    IF ~IsNone(p.session_start_dt)
    THEN [hms |-> (Get(p.session_start_dt) + offset_seconds) % 86400]
    ELSE [secs |-> offset_seconds]

\* A handler's result: the new parser state and the events it returns
Res(p, ev) == [p |-> p, ev |-> ev]

_handle_session_start(p, time_str, timezone) ==
    Res([p EXCEPT !.session_start_time = Some(time_str),
                  !.session_timezone = timezone,
                  !.session_start_dt = _parse_session_start_time(time_str)],
        << [type |-> "session_start", start_time |-> time_str,
            timezone |-> timezone] >>)

\* parts[i] of the Python code (0-based) is parts[i + 1] here
Part(parts, i) == parts[i + 1]

\* --- Captures ---

_handle_capture_starting(p, time, parts) ==
    LET p1 == [p EXCEPT !.capture_started_time = Some(time)] IN
    IF ~CanFloat(Part(parts, 2)) THEN Res(p1, <<>>)
    ELSE Res([p1 EXCEPT !.capture_started_exposure = Float(Part(parts, 2)),
                        !.capture_started_filter = Strip(Part(parts, 3))],
             <<>>)

\* Filename text: "/" and "_" are separator pieces, date-like name parts
\* are the pieces that begin with "20" or "19"
DatePieces == {"2026-02-27T00-02-21"}

Replace(s, from, to) == [i \in 1..Len(s) |-> IF s[i] = from THEN to ELSE s[i]]

RECURSIVE AfterPictures(_)
AfterPictures(dirs) ==
    IF Len(dirs) < 2 THEN None
    ELSE IF dirs[1] = <<"Pictures">> THEN Some(Replace(dirs[2], "_", " "))
    ELSE AfterPictures(Tail(dirs))

RECURSIVE ObjParts(_, _, _)
ObjParts(names, found_date, acc) ==
    IF names = <<>> THEN acc
    ELSE LET n == Head(names) IN
         IF ~found_date /\ Len(n) > 0 /\ n[1] \in DatePieces
         THEN ObjParts(Tail(names), TRUE, acc)
         ELSE IF found_date /\ n = <<"Light">> THEN acc
         ELSE IF found_date THEN ObjParts(Tail(names), TRUE, acc \o <<n>>)
         ELSE ObjParts(Tail(names), FALSE, acc)

RECURSIVE JoinBlank(_)
JoinBlank(ps) ==
    IF ps = <<>> THEN <<>>
    ELSE IF Len(ps) = 1 THEN ps[1]
    ELSE ps[1] \o <<" ">> \o JoinBlank(Tail(ps))

_extract_object_from_filename(filename) ==
    IF filename = <<>> THEN <<>>
    ELSE LET dirs == Split(filename, "/")
             hit == AfterPictures(dirs)
             name_parts == Split(dirs[Len(dirs)], "_")
             obj_parts == ObjParts(name_parts, FALSE, <<>>)
         IN  IF ~IsNone(hit) THEN Get(hit)
             ELSE IF Len(name_parts) > 2 /\ obj_parts # <<>>
                  THEN JoinBlank(obj_parts)
             ELSE <<>>

\* int(text) / float(text) of an optional trailing field
OptOk(parts, i) == Len(parts) > i => CanFloat(Part(parts, i))
OptVal(parts, i) == IF Len(parts) > i THEN Float(Part(parts, i)) ELSE 0

\* duration = time - started if started else exposure
CaptureDuration(p, time, exposure) ==
    IF Truthy(p.capture_started_time)
    THEN time - Get(p.capture_started_time)
    ELSE exposure

_handle_capture_complete(p, time, parts) ==
    IF ~( CanFloat(Part(parts, 2)) /\ CanFloat(Part(parts, 4))
          /\ OptOk(parts, 6) /\ OptOk(parts, 7) /\ OptOk(parts, 8) )
    THEN Res(p, <<>>)
    ELSE
    LET exposure == Float(Part(parts, 2))
        filename == Strip(Part(parts, 5))
        duration == CaptureDuration(p, time, exposure)
        object_name == _extract_object_from_filename(filename)
    IN  Res([p EXCEPT !.capture_started_time = None],
            << [type |-> "capture_complete",
                time |-> time,
                clock_time |-> _to_clock_time(p, time),
                exposure |-> exposure,
                filter |-> Strip(Part(parts, 3)),
                hfr |-> Float(Part(parts, 4)),
                filename |-> filename,
                num_stars |-> OptVal(parts, 6),
                median |-> OptVal(parts, 7),
                eccentricity |-> OptVal(parts, 8),
                duration |-> duration,
                object_name |-> IF object_name # <<>> THEN object_name
                                ELSE p.current_job] >>)

_handle_capture_aborted(p, time, parts) ==
    IF ~CanFloat(Part(parts, 2)) THEN Res(p, <<>>)
    ELSE Res([p EXCEPT !.capture_started_time = None],
             << [type |-> "capture_aborted",
                 time |-> time,
                 clock_time |-> _to_clock_time(p, time),
                 exposure |-> Float(Part(parts, 2)),
                 filter |-> p.capture_started_filter,
                 object_name |-> p.current_job] >>)

\* --- Autofocus ---

_handle_af_starting(p, time, parts) ==
    LET p1 == [p EXCEPT !.af_started_time = Some(time),
                        !.af_started_filter = Strip(Part(parts, 2))] IN
    IF ~CanFloat(Part(parts, 3)) THEN Res(p1, <<>>)
    ELSE Res([p1 EXCEPT !.af_started_temp = Float(Part(parts, 3))], <<>>)

\* Text after the last "Solution:" of the line: its first word is the
\* position, the text after the last "R2=" is r_squared
RECURSIVE LastAfter(_, _, _)
LastAfter(s, mark, found) ==
    IF s = <<>> THEN found
    ELSE IF Head(s) = mark THEN LastAfter(Tail(s), mark, Some(Tail(s)))
    ELSE LastAfter(Tail(s), mark, found)

\* ','.join(parts)
RECURSIVE JoinParts(_)
JoinParts(parts) ==
    IF parts = <<>> THEN <<>>
    ELSE IF Len(parts) = 1 THEN parts[1]
    ELSE parts[1] \o <<",">> \o JoinParts(Tail(parts))

Words(s) == SelectSeq(Split(s, " "), LAMBDA w : w # <<>>)

_handle_af_complete(p, time, parts) ==
    IF IsNone(p.af_started_time) THEN Res(p, <<>>)
    ELSE
    LET full_line == JoinParts(parts)
        sol == LastAfter(full_line, "Solution:", None)
        sol_part == IF IsNone(sol) THEN <<>> ELSE Strip(Get(sol))
        sol_ok == ~IsNone(sol) /\ Words(sol_part) # <<>>
        r2 == LastAfter(sol_part, "R2=", None)
        temperature == IF CanFloat(Part(parts, 2)) THEN Float(Part(parts, 2))
                       ELSE p.af_started_temp
    IN  Res([p EXCEPT !.af_started_time = None],
            << [type |-> "autofocus_complete",
                time |-> time,
                clock_time |-> _to_clock_time(p, time),
                filter |-> p.af_started_filter,
                temperature |-> temperature,
                duration |-> time - Get(p.af_started_time),
                position |-> IF sol_ok THEN Words(sol_part)[1] ELSE <<>>,
                r_squared |-> IF sol_ok /\ ~IsNone(r2) THEN Strip(Get(r2))
                              ELSE <<>>,
                solution_info |-> IF sol_ok THEN sol_part ELSE <<>>] >>)

_handle_af_aborted(p, time, parts) ==
    Res([p EXCEPT !.af_started_time = None],
        << [type |-> "autofocus_aborted",
            time |-> time,
            clock_time |-> _to_clock_time(p, time),
            filter |-> p.af_started_filter,
            duration |-> IF Truthy(p.af_started_time)
                         THEN time - Get(p.af_started_time) ELSE 0] >>)

\* --- Guide state ---

GuideEvent(p, subtype, time, duration) ==
    [type |-> "guide_problem", subtype |-> subtype, time |-> time,
     clock_time |-> _to_clock_time(p, time), duration |-> duration]

ReacquireEvent(p, time, count, window) ==
    [type |-> "guide_problem", subtype |-> "frequent_reacquire",
     time |-> time, clock_time |-> _to_clock_time(p, time),
     count |-> count, window |-> window]

\* Variant: the alerted flag survives the return of guiding
GuidingResumed_keeps_alert(p) ==
    [p EXCEPT !.guiding_active = TRUE, !.guide_lost_time = None]

\* The three assignments that end the Guiding branch, lines 319-321
GuidingResumed(p) ==
    [p EXCEPT !.guiding_active = TRUE,
              !.guide_lost_time = None,
              !.guide_lost_alerted = FALSE]

\* Variant: the alert is raised again at every line of the loss
LostAlertDue_repeated(cfg, p, time) ==
    /\ ~IsNone(p.guide_lost_time)
    /\ time - Get(p.guide_lost_time) >= cfg.guide_lost_threshold

\* Variant: no cooldown after an alert
ReacquireAlertDue_no_cooldown(cfg, p, times, time) ==
    Len(times) >= cfg.reacquire_alert_count

\* Variant: the threshold must be exceeded, not reached
LostAlertDue_strict(cfg, p, time) ==
    /\ ~IsNone(p.guide_lost_time)
    /\ ~p.guide_lost_alerted
    /\ time - Get(p.guide_lost_time) > cfg.guide_lost_threshold

\* The "lost too long" test of the Aborted/Idle branch
LostAlertDue(cfg, p, time) ==
    /\ ~IsNone(p.guide_lost_time)
    /\ ~p.guide_lost_alerted
    /\ time - Get(p.guide_lost_time) >= cfg.guide_lost_threshold

\* The "frequent reacquiring" test of the Reacquiring branch
ReacquireAlertDue(cfg, p, times, time) ==
    /\ Len(times) >= cfg.reacquire_alert_count
    /\ time - p.reacquire_alerted_at > cfg.reacquire_alert_window

IsLossState_dithering(state) ==
    state \in {<<"Aborted">>, <<"Idle">>, <<"Dithering">>}
\* state in ("Aborted", "Idle"), line 344
IsLossState(state) == state \in {<<"Aborted">>, <<"Idle">>}

_handle_guide_state(cfg, p0, time, state) ==
    LET p == [p0 EXCEPT !.last_guide_state = state,
                        !.last_guide_state_time = time] IN
    IF state = <<"Guiding">> THEN
        Res(GuidingResumed(p),
            IF ~IsNone(p.guide_lost_time) /\ p.guide_lost_alerted
            THEN << GuideEvent(p, "recovered", time,
                               time - Get(p.guide_lost_time)) >>
            ELSE <<>>)
    ELSE IF state = <<"Reacquiring">> THEN
        LET cutoff == time - cfg.reacquire_alert_window
            times == SelectSeq(Append(p.reacquire_times, time),
                               LAMBDA t : t > cutoff)
            alert == ReacquireAlertDue(cfg, p, times, time)
        IN  Res([p EXCEPT !.reacquire_times = times,
                          !.reacquire_alerted_at =
                              IF alert THEN time ELSE @],
                IF alert
                THEN << ReacquireEvent(p, time, Len(times),
                                       cfg.reacquire_alert_window) >>
                ELSE <<>>)
    ELSE IF IsLossState(state) THEN
        LET p1 == IF p.guiding_active /\ IsNone(p.guide_lost_time)
                  THEN [p EXCEPT !.guide_lost_time = Some(time),
                                 !.guiding_active = FALSE]
                  ELSE p
            alert == LostAlertDue(cfg, p1, time)
        IN  Res([p1 EXCEPT !.guide_lost_alerted = IF alert THEN TRUE ELSE @],
                IF alert
                THEN << GuideEvent(p, "lost", time,
                               time - Get(p1.guide_lost_time)) >>
                ELSE <<>>)
    ELSE Res(p, <<>>)

\* --- Mount state ---

MountEvent(p, time, state) ==
    [type |-> "mount_parking", time |-> time,
     clock_time |-> _to_clock_time(p, time), state |-> state]

_handle_mount_state_unflagged(p, time, state) ==
    IF state = <<"Parking">>
    THEN Res([p EXCEPT !.mount_parking = TRUE],
             IF ~p.mount_parking THEN << MountEvent(p, time, "Parking") >>
             ELSE <<>>)
    ELSE Res([p EXCEPT !.mount_parking = FALSE],
             IF state = <<"Parked">> THEN << MountEvent(p, time, "Parked") >>
             ELSE <<>>)
_handle_mount_state(p, time, state) ==
    IF state = <<"Parking">> THEN
        IF ~p.mount_parking
        THEN Res([p EXCEPT !.mount_parking = TRUE],
                 << MountEvent(p, time, "Parking") >>)
        ELSE Res(p, <<>>)
    ELSE IF state \in {<<"Parked">>, <<"Idle">>} THEN
        IF p.mount_parking
        THEN Res([p EXCEPT !.mount_parking = FALSE],
                 IF state = <<"Parked">>
                 THEN << MountEvent(p, time, "Parked") >> ELSE <<>>)
        ELSE Res(p, <<>>)
    ELSE Res([p EXCEPT !.mount_parking = FALSE], <<>>)

\* --- Scheduler ---

_handle_scheduler_start(p, time, job_name) ==
    Res([p EXCEPT !.current_job = job_name],
        << [type |-> "scheduler_job_start", time |-> time,
            clock_time |-> _to_clock_time(p, time),
            job_name |-> job_name] >>)

_handle_scheduler_end(p, time, job_name, reason) ==
    Res([p EXCEPT !.current_job = <<>>],
        << [type |-> "scheduler_job_end", time |-> time,
            clock_time |-> _to_clock_time(p, time),
            job_name |-> job_name, reason |-> reason] >>)

\* --- Align state ---

AlignDuration(p, time) ==
    IF Truthy(p.align_started_time) THEN time - Get(p.align_started_time)
    ELSE 0

_handle_align_state(p, time, state) ==
    IF state = <<"In Progress">> THEN
        IF ~p.align_in_progress
        THEN Res([p EXCEPT !.align_in_progress = TRUE,
                           !.align_started_time = Some(time)], <<>>)
        ELSE Res(p, <<>>)
    ELSE IF state = <<"Complete">> THEN
        IF p.align_in_progress
        THEN Res([p EXCEPT !.align_in_progress = FALSE,
                           !.align_started_time = None],
                 << [type |-> "align_complete", time |-> time,
                     clock_time |-> _to_clock_time(p, time),
                     duration |-> AlignDuration(p, time)] >>)
        ELSE Res(p, <<>>)
    ELSE IF state \in {<<"Failed">>, <<"Aborted">>} THEN
        IF p.align_in_progress
        THEN Res([p EXCEPT !.align_in_progress = FALSE,
                           !.align_started_time = None],
                 << [type |-> "align_failed", time |-> time,
                     clock_time |-> _to_clock_time(p, time),
                     duration |-> AlignDuration(p, time),
                     state |-> state] >>)
        ELSE Res(p, <<>>)
    ELSE Res(p, <<>>)

\* --- Meridian flip ---

_handle_meridian_flip(p, time, state) ==
    IF state \in {<<"MOUNT_FLIP_RUNNING">>, <<"MOUNT_FLIP_COMPLETED">>,
                  <<"MOUNT_FLIP_ERROR">>}
    THEN Res(p, << [type |-> "meridian_flip", time |-> time,
                    clock_time |-> _to_clock_time(p, time),
                    state |-> state] >>)
    ELSE Res(p, <<>>)

\* --- Line dispatch ---

\* Variant: a time offset that does not parse is read as 0
ParseOffset_default(parts) ==
    IF CanFloat(Part(parts, 1)) THEN Some(Float(Part(parts, 1))) ELSE Some(0)

\* time_offset = float(parts[1]), or nothing when that raises
ParseOffset(parts) ==
    IF CanFloat(Part(parts, 1)) THEN Some(Float(Part(parts, 1))) ELSE None

_process_line(cfg, p, raw) ==
    LET line == Strip(raw)
        parts == Split(line, ",")
        command == parts[1]
        n == Len(parts)
    IN
    IF line = <<>> \/ line[1] = "#" THEN Res(p, <<>>)
    ELSE IF n < 2 THEN Res(p, <<>>)
    ELSE IF command = <<"AnalyzeStartTime">> /\ n >= 3
         THEN _handle_session_start(p, Strip(parts[2]), Strip(parts[3]))
    ELSE IF IsNone(ParseOffset(parts)) THEN Res(p, <<>>)
    ELSE
    LET time_offset == Get(ParseOffset(parts)) IN
    IF command = <<"CaptureStarting">> /\ n >= 4
        THEN _handle_capture_starting(p, time_offset, parts)
    ELSE IF command = <<"CaptureComplete">> /\ n >= 6
        THEN _handle_capture_complete(p, time_offset, parts)
    ELSE IF command = <<"CaptureAborted">> /\ n >= 3
        THEN _handle_capture_aborted(p, time_offset, parts)
    ELSE IF command = <<"AutofocusStarting">> /\ n >= 4
        THEN _handle_af_starting(p, time_offset, parts)
    ELSE IF command = <<"AutofocusComplete">> /\ n >= 4
        THEN _handle_af_complete(p, time_offset, parts)
    ELSE IF command = <<"AutofocusAborted">> /\ n >= 4
        THEN _handle_af_aborted(p, time_offset, parts)
    ELSE IF command = <<"GuideState">> /\ n >= 3
        THEN _handle_guide_state(cfg, p, time_offset, Strip(parts[3]))
    ELSE IF command = <<"MountState">> /\ n >= 3
        THEN _handle_mount_state(p, time_offset, Strip(parts[3]))
    ELSE IF command = <<"SchedulerJobStart">> /\ n >= 3
        THEN _handle_scheduler_start(p, time_offset, Strip(parts[3]))
    ELSE IF command = <<"SchedulerJobEnd">> /\ n >= 4
        THEN _handle_scheduler_end(p, time_offset, Strip(parts[3]),
                                   Strip(parts[4]))
    ELSE IF command = <<"AlignState">> /\ n >= 3
        THEN _handle_align_state(p, time_offset, Strip(parts[3]))
    ELSE IF command = <<"MeridianFlipState">> /\ n >= 3
        THEN _handle_meridian_flip(p, time_offset, Strip(parts[3]))
    ELSE Res(p, <<>>)

RECURSIVE process_lines(_, _, _)
process_lines(cfg, p, ls) ==
    IF ls = <<>> THEN Res(p, <<>>)
    ELSE LET r == _process_line(cfg, p, Head(ls))
             rest == process_lines(cfg, r.p, Tail(ls))
         IN  Res(rest.p, r.ev \o rest.ev)

(***************************************************************************)
(* EkosAnalyzer.parse_analyze_file                                         *)
(***************************************************************************)

\* The session_data dictionary before the first line
NewSession(filepath) ==
    [ filepath             |-> filepath,
      session_start        |-> None,
      kstars_version       |-> None,
      captures             |-> <<>>,
      autofocus_sessions   |-> <<>>,
      temperature_readings |-> <<>>,
      mount_coords         |-> <<>>,
      mount_states         |-> <<>>,
      guide_stats          |-> <<>>,
      guide_states         |-> <<>>,
      align_states         |-> <<>>,
      scheduler_jobs       |-> <<>>,
      issues               |-> <<>> ]

\* int(text): on the numbers of the model the texts int() accepts are the
\* texts float() accepts
CanInt(f) == CanFloat(f)
Int_(f) == Float(f)

\* _calculate_fwhm_from_hfr: hfr * 1.2, kept in tenths
_calculate_fwhm_from_hfr(hfr) ==
    IF IsNone(hfr) \/ Get(hfr) <= 0 THEN None ELSE Some(Get(hfr) * 12)

\* datetime_str.split('.')[0] on the date texts of DateTable
DropFraction(piece) ==
    IF piece = "2025-01-01 23:59:30.000" THEN "2025-01-01 23:59:30"
    ELSE piece

\* re.search(r'Solution: (\d+)', text): the number matched, if any
RECURSIVE SolutionPosition(_)
SolutionPosition(text) ==
    IF Len(text) < 3 THEN None
    ELSE IF text[1] = "Solution:" /\ text[2] = " " /\ text[3] \in NumStrs
         THEN Some(NumTable[text[3]])
    ELSE SolutionPosition(Tail(text))

\* The loop over the measurements in groups of 4: position, hfr, weight,
\* outlier flag; a group that does not parse is skipped.  On whole numbers
\* 0.5 <= hfr is 1 <= 2 * hfr.
RECURSIVE Measurements(_, _)
Measurements(ms, i) ==
    IF i + 3 > Len(ms) THEN <<>>
    ELSE LET ok == CanInt(ms[i]) /\ CanFloat(ms[i + 1])
                   /\ CanFloat(ms[i + 2]) /\ CanInt(ms[i + 3])
             keep == ok /\ Int_(ms[i + 3]) = 0
                     /\ 1 <= 2 * Float(ms[i + 1]) /\ Float(ms[i + 1]) <= 20
         IN  (IF keep
              THEN << [position |-> Int_(ms[i]), hfr |-> Float(ms[i + 1]),
                       weight |-> Float(ms[i + 2])] >>
              ELSE <<>>) \o Measurements(ms, i + 4)

\* min(hfr_values, key=hfr): the first measurement of least hfr
MinHfr(vals) ==
    LET i == CHOOSE k \in 1..Len(vals) :
                /\ \A j \in 1..Len(vals) : vals[k].hfr <= vals[j].hfr
                /\ \A j \in 1..(k - 1) : vals[j].hfr > vals[k].hfr
    IN  vals[i].hfr

\* The hfr of the first measurement taken at the focus position, if any
AtFocus(vals, focus) ==
    LET hits == SelectSeq(vals, LAMBDA v : ~IsNone(focus)
                                           /\ Get(focus) # 0
                                           /\ v.position = Get(focus))
    IN  IF hits = <<>> THEN None ELSE Some(hits[1].hfr)

\* Lines 446-457 and 393-404: best_hfr from the measurements kept
WithBest(af) ==
    IF af.hfr_values = <<>> THEN af
    ELSE LET at == AtFocus(af.hfr_values, af.focus_position) IN
         [af EXCEPT !.best_hfr = IF IsNone(at) THEN Some(MinHfr(af.hfr_values))
                                 ELSE at]

Contains(text, piece) == \E i \in 1..Len(text) : text[i] = piece

_extract_hfr_from_data_section(af, hfr_data_section) ==
    IF ~Contains(hfr_data_section, "|") THEN af
    ELSE LET focus == IF af.solution # None
                      THEN SolutionPosition(Get(af.solution)) ELSE None
             af1 == [af EXCEPT !.focus_position =
                                  IF IsNone(focus) THEN @ ELSE focus]
             ms == Split(hfr_data_section, "|")
         IN  WithBest([af1 EXCEPT !.hfr_values = @ \o Measurements(ms, 1)])

\* The solution text holds no comma, so its only part is the text itself
_extract_hfr_from_autofocus(af) ==
    LET solution_str == Get(af.solution)
        focus == SolutionPosition(solution_str)
        af1 == [af EXCEPT !.focus_position = IF IsNone(focus) THEN @ ELSE focus]
        ms == Split(solution_str, "|")
        is_section == Contains(solution_str, "|") /\ Len(ms) >= 12
                      /\ CanInt(ms[1]) /\ CanFloat(ms[2])
                      /\ CanFloat(ms[3]) /\ CanInt(ms[4])
    IN  IF solution_str = <<>> THEN af
        ELSE WithBest([af1 EXCEPT !.hfr_values =
                          IF is_section THEN @ \o Measurements(ms, 1) ELSE @])

\* The result of decoding one line: session_data afterwards, and whether a
\* conversion raised outside any inner try
BR(sd, raised) == [sd |-> sd, raised |-> raised]
Add(sd, key, item) == BR([sd EXCEPT ![key] = Append(@, item)], FALSE)
Raise(sd) == BR(sd, TRUE)
Skip(sd) == BR(sd, FALSE)

AllFloat(parts, idx) == \A i \in idx : CanFloat(Part(parts, i))

BatchCaptureComplete(sd, timestamp, parts) ==
    LET hfr_value == IF CanFloat(Part(parts, 4)) /\ Float(Part(parts, 4)) > 0
                     THEN Some(Float(Part(parts, 4))) ELSE None
        stars_value == IF Len(parts) > 7 /\ CanInt(Part(parts, 7))
                          /\ Int_(Part(parts, 7)) > 0
                       THEN Some(Int_(Part(parts, 7))) ELSE None
    IN  IF ~CanFloat(Part(parts, 2)) THEN Raise(sd)
        ELSE Add(sd, "captures",
                 [ timestamp |-> timestamp,
                   event     |-> "complete",
                   exposure  |-> Float(Part(parts, 2)),
                   filter    |-> Part(parts, 3),
                   hfr       |-> hfr_value,
                   fwhm      |-> _calculate_fwhm_from_hfr(hfr_value),
                   stars     |-> stars_value,
                   filepath  |-> Part(parts, 5) ])

BatchAutofocusComplete(sd, timestamp, parts) ==
    IF ~(CanFloat(Part(parts, 2)) /\ CanInt(Part(parts, 3))) THEN Raise(sd)
    ELSE
    LET section == IF Len(parts) > 6 THEN Some(Part(parts, 6)) ELSE None
        af0 == [ timestamp      |-> timestamp,
                 event          |-> "complete",
                 temperature    |-> Float(Part(parts, 2)),
                 step           |-> Int_(Part(parts, 3)),
                 filter         |-> Part(parts, 5),
                 solution       |-> IF Len(parts) > 6
                                    THEN Some(parts[Len(parts)]) ELSE None,
                 hfr_data_raw   |-> section,
                 hfr_values     |-> <<>>,
                 best_hfr       |-> None,
                 focus_position |-> None ]
        af1 == IF ~IsNone(section) /\ Contains(Get(section), "|")
               THEN _extract_hfr_from_data_section(af0, Get(section))
               ELSE af0
        af2 == IF IsNone(af1.best_hfr) /\ ~IsNone(af1.solution)
                  /\ Get(af1.solution) # <<>>
               THEN _extract_hfr_from_autofocus(af1)
               ELSE af1
    IN  Add(sd, "autofocus_sessions", af2)

BatchGuideStats(sd, timestamp, parts) ==
    IF ~( AllFloat(parts, {2, 3, 6}) /\ CanInt(Part(parts, 4))
          /\ CanInt(Part(parts, 5)) /\ OptOk(parts, 7) /\ OptOk(parts, 8) )
    THEN Raise(sd)
    ELSE Add(sd, "guide_stats",
             [ timestamp |-> timestamp,
               dx        |-> Float(Part(parts, 2)),
               dy        |-> Float(Part(parts, 3)),
               pulse_ra  |-> Int_(Part(parts, 4)),
               pulse_dec |-> Int_(Part(parts, 5)),
               distance  |-> Float(Part(parts, 6)),
               rms       |-> OptVal(parts, 7),
               snr       |-> OptVal(parts, 8) ])

\* The body of the loop over the lines of the file, lines 133-325
BatchLine(sd, raw) ==
    LET line == Strip(raw)
        parts == Split(line, ",")
        n == Len(parts)
        event_type == parts[1]
        timestamp == Float(Part(parts, 1))
        TS(st) == [timestamp |-> timestamp, state |-> st]
    IN
    IF line = <<>> THEN Skip(sd)
    ELSE IF line[1] = "#" THEN
        IF Len(line) >= 4 /\ line[2] = "KStars version" /\ line[3] = " "
        THEN BR([sd EXCEPT !.kstars_version = Some(line[4])], FALSE)
        ELSE Skip(sd)
    ELSE IF n < 2 THEN Skip(sd)
    ELSE IF event_type = <<"AnalyzeStartTime">> THEN
        BR([sd EXCEPT !.session_start =
               Some([i \in 1..Len(parts[2]) |-> DropFraction(parts[2][i])])],
           FALSE)
    ELSE IF ~CanFloat(Part(parts, 1)) THEN Skip(sd)
    ELSE IF event_type = <<"Temperature">> THEN
        IF n < 3 THEN Skip(sd)
        ELSE IF ~CanFloat(Part(parts, 2)) THEN Raise(sd)
        ELSE Add(sd, "temperature_readings",
                 [timestamp |-> timestamp,
                  temperature |-> Float(Part(parts, 2))])
    ELSE IF event_type = <<"MountState">> THEN
        IF n < 3 THEN Skip(sd)
        ELSE Add(sd, "mount_states", TS(Part(parts, 2)))
    ELSE IF event_type = <<"MountCoords">> THEN
        IF n < 8 THEN Skip(sd)
        ELSE IF ~AllFloat(parts, 2..5) THEN Raise(sd)
        ELSE Add(sd, "mount_coords",
                 [timestamp |-> timestamp,
                  ra |-> Float(Part(parts, 2)), dec |-> Float(Part(parts, 3)),
                  az |-> Float(Part(parts, 4)), alt |-> Float(Part(parts, 5))])
    ELSE IF event_type = <<"CaptureStarting">> THEN
        IF n < 4 THEN Skip(sd)
        ELSE IF ~CanFloat(Part(parts, 2)) THEN Raise(sd)
        ELSE Add(sd, "captures",
                 [timestamp |-> timestamp, event |-> "starting",
                  exposure |-> Float(Part(parts, 2)),
                  filter |-> Part(parts, 3)])
    ELSE IF event_type = <<"CaptureComplete">> THEN
        IF n < 6 THEN Skip(sd)
        ELSE BatchCaptureComplete(sd, timestamp, parts)
    ELSE IF event_type = <<"CaptureAborted">> THEN
        IF n > 2 /\ ~CanFloat(Part(parts, 2)) THEN Raise(sd)
        ELSE Add(sd, "issues",
                 [timestamp |-> timestamp, type |-> "capture_aborted",
                  exposure |-> IF n > 2 THEN Some(Float(Part(parts, 2)))
                               ELSE None])
    ELSE IF event_type = <<"AutofocusStarting">> THEN
        IF n < 5 THEN Skip(sd)
        ELSE IF ~(CanFloat(Part(parts, 3)) /\ CanInt(Part(parts, 4)))
             THEN Raise(sd)
        ELSE Add(sd, "autofocus_sessions",
                 [timestamp |-> timestamp, event |-> "starting",
                  filter |-> Part(parts, 2),
                  temperature |-> Float(Part(parts, 3)),
                  step |-> Int_(Part(parts, 4))])
    ELSE IF event_type = <<"AutofocusComplete">> THEN
        IF n < 6 THEN Skip(sd)
        ELSE BatchAutofocusComplete(sd, timestamp, parts)
    ELSE IF event_type = <<"GuideStats">> THEN
        IF n < 7 THEN Skip(sd)
        ELSE BatchGuideStats(sd, timestamp, parts)
    ELSE IF event_type = <<"GuideState">> THEN
        IF n < 3 THEN Skip(sd)
        ELSE Add(sd, "guide_states", TS(Part(parts, 2)))
    ELSE IF event_type = <<"AlignState">> THEN
        IF n < 3 THEN Skip(sd)
        ELSE Add(sd, "align_states", TS(Part(parts, 2)))
    ELSE IF event_type = <<"SchedulerJobStart">> THEN
        IF n < 3 THEN Skip(sd)
        ELSE Add(sd, "scheduler_jobs",
                 [timestamp |-> timestamp, event |-> "start",
                  object_name |-> Part(parts, 2)])
    ELSE IF event_type = <<"SchedulerJobEnd">> THEN
        IF n < 3 THEN Skip(sd)
        ELSE Add(sd, "scheduler_jobs",
                 [timestamp |-> timestamp, event |-> "end",
                  object_name |-> Part(parts, 2)])
    ELSE Skip(sd)

\* The loop inside the try of lines 128-328: an exception ends it
RECURSIVE BatchLoop(_, _)
BatchLoop(sd, ls) ==
    IF ls = <<>> THEN sd
    ELSE LET r == BatchLine(sd, Head(ls)) IN
         IF r.raised THEN r.sd ELSE BatchLoop(r.sd, Tail(ls))

\* Variant: a file already aggregated is answered with the session the
\* aggregator holds
parse_analyze_file_shared(filepath, file_lines) ==
    LET held == {k \in 1..Len(all_sessions) :
                     all_sessions[k].filepath = filepath}
    IN  IF held # {} THEN all_sessions[CHOOSE k \in held : TRUE]
        ELSE BatchLoop(NewSession(filepath), file_lines)
\* parse_analyze_file(filepath), given the lines of the file: the session
\* is built from a new dictionary and the lines alone (lines 112-330)
parse_analyze_file(filepath, file_lines) ==
    BatchLoop(NewSession(filepath), file_lines)

(***************************************************************************)
(* Fractions: the averages and ratios the analyzer computes, kept exact    *)
(* (the code computes them in floating point)                              *)
(***************************************************************************)
RECURSIVE Gcd(_, _)
Gcd(a, b) == IF b = 0 THEN a ELSE Gcd(b, a % b)

\* n / d in lowest terms, d > 0
Rat(n, d) ==
    LET g == Gcd(IF n < 0 THEN 0 - n ELSE n, d) IN
    [num |-> n \div g, den |-> d \div g]
RatAdd(a, b) == Rat(a.num * b.den + b.num * a.den, a.den * b.den)
RatTimes(a, k) == Rat(a.num * k, a.den)
RatOver(a, k) == Rat(a.num, a.den * k)
RatLess(a, b) == a.num * b.den < b.num * a.den

RECURSIVE RatSum(_)
RatSum(values) ==
    IF values = <<>> THEN Rat(0, 1)
    ELSE RatAdd(Head(values), RatSum(Tail(values)))

\* sum(values) / len(values)
RatAvg(values) == RatOver(RatSum(values), Len(values))

(***************************************************************************)
(* EkosAnalyzer._calculate_guide_quality_from_distance                     *)
(***************************************************************************)

\* EkosAnalyzer(pixel_scale_arcsec, guide_quality_thresholds): the pixel
\* scale in tenths of an arcsecond per pixel, the thresholds in tenths of a
\* pixel
NewAnalyzer(pixel_scale_arcsec, guide_quality_thresholds) ==
    [ pixel_scale_arcsec |-> pixel_scale_arcsec,
      guide_quality_thresholds |->
          IF IsNone(guide_quality_thresholds)
          THEN [excellent_px |-> 5, good_px |-> 10, average_px |-> 15]
          ELSE Get(guide_quality_thresholds) ]

\* Variant: a distance equal to a threshold gets the better category
_calculate_guide_quality_from_distance_inclusive(self, distances) ==
    IF distances = <<>> THEN "Unknown"
    ELSE
    LET avg == RatAvg(distances)
        upto(a, b) == ~RatLess(b, a)
        px == RatOver(RatTimes(avg, 10),
                      IF Truthy(self.pixel_scale_arcsec)
                      THEN Get(self.pixel_scale_arcsec) ELSE 1)
    IN  IF Truthy(self.pixel_scale_arcsec) /\ Get(self.pixel_scale_arcsec) > 0
        THEN IF upto(px, Rat(self.guide_quality_thresholds.excellent_px, 10))
             THEN "Excellent"
             ELSE IF upto(px, Rat(self.guide_quality_thresholds.good_px, 10))
             THEN "Good"
             ELSE IF upto(px, Rat(self.guide_quality_thresholds.average_px, 10))
             THEN "Average"
             ELSE "Poor"
        ELSE IF upto(avg, Rat(1, 1)) THEN "Excellent"
        ELSE IF upto(avg, Rat(2, 1)) THEN "Good"
        ELSE IF upto(avg, Rat(3, 1)) THEN "Average"
        ELSE "Poor"

_calculate_guide_quality_from_distance_inverted(self, distances) ==
    IF distances = <<>> THEN "Unknown"
    ELSE IF RatLess(Rat(1, 1), RatAvg(distances)) THEN "Excellent"
    ELSE IF RatLess(RatAvg(distances), Rat(2, 1)) THEN "Good"
    ELSE "Poor"
\* distances in arcseconds; the pixel path divides their average by the
\* pixel scale and compares with the thresholds
_calculate_guide_quality_from_distance(self, distances) ==
    IF distances = <<>> THEN "Unknown"
    ELSE
    LET avg_distance_arcsec == RatAvg(distances) IN
    IF Truthy(self.pixel_scale_arcsec) /\ Get(self.pixel_scale_arcsec) > 0
    THEN LET avg_distance_pixels ==
                 RatOver(RatTimes(avg_distance_arcsec, 10),
                         Get(self.pixel_scale_arcsec))
             below(t) == RatLess(avg_distance_pixels, Rat(t, 10))
         IN  IF below(self.guide_quality_thresholds.excellent_px)
             THEN "Excellent"
             ELSE IF below(self.guide_quality_thresholds.good_px) THEN "Good"
             ELSE IF below(self.guide_quality_thresholds.average_px)
             THEN "Average"
             ELSE "Poor"
    ELSE IF RatLess(avg_distance_arcsec, Rat(1, 1)) THEN "Excellent"
    ELSE IF RatLess(avg_distance_arcsec, Rat(2, 1)) THEN "Good"
    ELSE IF RatLess(avg_distance_arcsec, Rat(3, 1)) THEN "Average"
    ELSE "Poor"

(***************************************************************************)
(* EkosAnalyzer: autofocus backfill and aggregation                        *)
(***************************************************************************)

\* sorted(items, key=lambda x: x['timestamp']): stable
RECURSIVE InsertByTimestamp(_, _)
InsertByTimestamp(sorted, x) ==
    IF sorted = <<>> THEN <<x>>
    ELSE IF Head(sorted).timestamp <= x.timestamp
         THEN <<Head(sorted)>> \o InsertByTimestamp(Tail(sorted), x)
    ELSE <<x>> \o sorted

RECURSIVE SortedByTimestamp(_)
SortedByTimestamp(items) ==
    IF items = <<>> THEN <<>>
    ELSE InsertByTimestamp(SortedByTimestamp(SubSeq(items, 1, Len(items) - 1)),
                           items[Len(items)])

\* [x for x in items if x['event'] == 'complete']
Completed(items) == SelectSeq(items, LAMBDA x : x.event = "complete")

\* The end of the window of an autofocus: the first later completed
\* autofocus of the same filter, or two hours later
NextAfTimestamp(completed_autofocus, af) ==
    LET later == SelectSeq(completed_autofocus,
                           LAMBDA n : /\ n.timestamp > af.timestamp
                                      /\ n.filter = af.filter)
    IN  IF later = <<>> THEN af.timestamp + 7200 ELSE later[1].timestamp

HfrMissing_always(capture) == TRUE
\* capture.get('hfr') is None
HfrMissing(capture) == IsNone(capture.hfr)

\* The loop over the completed captures for one autofocus: the captures
\* are updated in place, so the list keeps its order
FillFrom(captures, af, next_af_timestamp) ==
    [ i \in 1..Len(captures) |->
        LET capture == captures[i] IN
        IF /\ capture.event = "complete"
           /\ capture.filter = af.filter
           /\ capture.timestamp > af.timestamp
           /\ capture.timestamp < next_af_timestamp
           /\ HfrMissing(capture)
        THEN [capture EXCEPT !.hfr = af.best_hfr,
                             !.fwhm = _calculate_fwhm_from_hfr(af.best_hfr)]
        ELSE capture ]

RECURSIVE AssociateLoop(_, _, _)
AssociateLoop(captures, todo, completed_autofocus) ==
    IF todo = <<>> THEN captures
    ELSE LET af == Head(todo) IN
         IF ~Truthy(af.best_hfr)
         THEN AssociateLoop(captures, Tail(todo), completed_autofocus)
         ELSE AssociateLoop(
                  FillFrom(captures, af,
                           NextAfTimestamp(completed_autofocus, af)),
                  Tail(todo), completed_autofocus)

_associate_autofocus_with_captures(sd) ==
    IF sd.autofocus_sessions = <<>> \/ sd.captures = <<>> THEN sd
    ELSE LET completed_autofocus ==
                 SortedByTimestamp(Completed(sd.autofocus_sessions))
         IN  [sd EXCEPT !.captures =
                 AssociateLoop(@, completed_autofocus, completed_autofocus)]

\* The dates a file name can carry after "ekos-"
FileDates == {"2025-01-01", "2025-01-02"}

\* os.path.basename, then re.match(r'ekos-(\d{4}-\d{2}-\d{2})')
_extract_object_name(filepath) ==
    LET dirs == Split(filepath, "/")
        filename == dirs[Len(dirs)]
    IN  IF Len(filename) >= 2 /\ filename[1] = "ekos-"
           /\ filename[2] \in FileDates
        THEN <<"Session_", filename[2]>>
        ELSE <<"Unknown">>

_get_object_name_for_capture_latest(capture_timestamp, scheduler_jobs) ==
    LET started_jobs ==
            SortedByTimestamp(SelectSeq(scheduler_jobs,
                                        LAMBDA j : j.event = "start"))
    IN  IF started_jobs = <<>> THEN None
        ELSE Some(started_jobs[Len(started_jobs)].object_name)
\* The name of the job started last at or before the capture, else of the
\* first job started; None without a started job
_get_object_name_for_capture(capture_timestamp, scheduler_jobs) ==
    LET started_jobs ==
            SortedByTimestamp(SelectSeq(scheduler_jobs,
                                        LAMBDA j : j.event = "start"))
        before == SelectSeq(started_jobs,
                            LAMBDA j : j.timestamp <= capture_timestamp)
    IN  IF started_jobs = <<>> THEN None
        ELSE IF before # <<>> THEN Some(before[Len(before)].object_name)
        ELSE Some(started_jobs[1].object_name)

\* _get_object_name_for_capture(...) or fallback_name
ObjectName(capture, session) ==
    LET name == _get_object_name_for_capture(capture.timestamp,
                                             session.scheduler_jobs)
    IN  IF IsNone(name) \/ Get(name) = <<>>
        THEN _extract_object_name(session.filepath)
        ELSE Get(name)

\* Variant: a capture equal to one already in the group is not added
AddToSummary_distinct(summary, key, capture) ==
    IF \E i \in 1..Len(summary) : summary[i].key = key
    THEN [ i \in 1..Len(summary) |->
             IF summary[i].key = key
                /\ \A j \in 1..Len(summary[i].captures) :
                       summary[i].captures[j] # capture
             THEN [summary[i] EXCEPT !.captures = Append(@, capture)]
             ELSE summary[i] ]
    ELSE Append(summary, [key |-> key, captures |-> <<capture>>])

\* capture_summary[key].append(capture): the keys keep their insertion order
AddToSummary(summary, key, capture) ==
    IF \E i \in 1..Len(summary) : summary[i].key = key
    THEN [ i \in 1..Len(summary) |->
             IF summary[i].key = key
             THEN [summary[i] EXCEPT !.captures = Append(@, capture)]
             ELSE summary[i] ]
    ELSE Append(summary, [key |-> key, captures |-> <<capture>>])

RECURSIVE GroupCaptures(_, _, _)
GroupCaptures(summary, captures, session) ==
    IF captures = <<>> THEN summary
    ELSE LET capture == Head(captures)
             key == <<ObjectName(capture, session), capture.filter>>
         IN  GroupCaptures(AddToSummary(summary, key, capture),
                           Tail(captures), session)

\* The loop over all_sessions of lines 650-664, as far as capture_summary
RECURSIVE BuildSummary(_, _)
BuildSummary(summary, sessions) ==
    IF sessions = <<>> THEN summary
    ELSE BuildSummary(GroupCaptures(summary, Completed(Head(sessions).captures),
                                    Head(sessions)),
                      Tail(sessions))

Abs(x) == IF x < 0 THEN 0 - x ELSE x

\* The file of the first session that holds a completed capture of the
\* same timestamp
SourceSession(capture, sessions) ==
    LET holds(k) == \E c \in {sessions[k].captures[i] :
                                 i \in 1..Len(sessions[k].captures)} :
                        /\ c.event = "complete"
                        /\ Abs(c.timestamp - capture.timestamp) < 1
        first == {k \in 1..Len(sessions) :
                     holds(k) /\ \A j \in 1..(k - 1) : ~holds(j)}
    IN  IF first = {} THEN None
        ELSE Some(sessions[CHOOSE k \in first : TRUE].filepath)

\* capture['source_session'] = ...
Tagged(capture, sessions) ==
    [ k \in DOMAIN capture \cup {"source_session"} |->
        IF k = "source_session" THEN SourceSession(capture, sessions)
        ELSE capture[k] ]

TaggedAll(captures, sessions) ==
    [ i \in 1..Len(captures) |->
        IF captures[i].event = "complete" THEN Tagged(captures[i], sessions)
        ELSE captures[i] ]

\* filter_captures[filter_name]: the captures of the summary entries of the
\* filter, in the order of the entries
RECURSIVE FilterCaptures(_, _)
FilterCaptures(summary, filter_name) ==
    IF summary = <<>> THEN <<>>
    ELSE (IF Head(summary).key[2] = filter_name
          THEN Head(summary).captures ELSE <<>>)
         \o FilterCaptures(Tail(summary), filter_name)

IsNewSubSession_at(time_gap) == time_gap >= 1800
\* time_gap > 1800: a gap of more than 30 minutes opens a new sub-session
IsNewSubSession(time_gap) == time_gap > 1800

\* The loop of lines 849-864 over the sorted captures of a filter
RECURSIVE SegmentLoop(_, _, _, _)
SegmentLoop(sorted_captures, i, sub_sessions, current_session) ==
    IF i > Len(sorted_captures)
    THEN IF current_session # <<>> THEN Append(sub_sessions, current_session)
         ELSE sub_sessions
    ELSE LET capture == sorted_captures[i] IN
         IF i = 1
         THEN SegmentLoop(sorted_captures, i + 1, sub_sessions, <<capture>>)
         ELSE IF IsNewSubSession(capture.timestamp
                                 - sorted_captures[i - 1].timestamp)
         THEN SegmentLoop(sorted_captures, i + 1,
                          IF current_session # <<>>
                          THEN Append(sub_sessions, current_session)
                          ELSE sub_sessions,
                          <<capture>>)
         ELSE SegmentLoop(sorted_captures, i + 1, sub_sessions,
                          Append(current_session, capture))

MinTimestamp(captures) ==
    CHOOSE t \in {captures[i].timestamp : i \in 1..Len(captures)} :
        \A i \in 1..Len(captures) : t <= captures[i].timestamp
MaxTimestamp(captures) ==
    CHOOSE t \in {captures[i].timestamp : i \in 1..Len(captures)} :
        \A i \in 1..Len(captures) : t >= captures[i].timestamp

RECURSIVE Concat(_)
Concat(ss) == IF ss = <<>> THEN <<>> ELSE Head(ss) \o Concat(Tail(ss))

\* [c[key] for c in captures if c.get(key) is not None]
RECURSIVE Values(_, _)
Values(captures, key) ==
    IF captures = <<>> THEN <<>>
    ELSE (IF IsNone(Head(captures)[key]) THEN <<>>
          ELSE << Get(Head(captures)[key]) >>)
         \o Values(Tail(captures), key)

MinOf(values) ==
    CHOOSE v \in {values[i] : i \in 1..Len(values)} :
        \A i \in 1..Len(values) : v <= values[i]
MaxOf(values) ==
    CHOOSE v \in {values[i] : i \in 1..Len(values)} :
        \A i \in 1..Len(values) : v >= values[i]
Whole(values) == [i \in 1..Len(values) |-> Rat(values[i], 1)]

\* hfr_stats and fwhm_stats of a sub-session, lines 535-553
ValueStats(values) ==
    IF values = <<>>
    THEN [min |-> None, max |-> None, avg |-> None, measurements |-> 0]
    ELSE [ min          |-> Some(MinOf(values)),
           max          |-> Some(MaxOf(values)),
           avg          |-> Some(RatAvg(Whole(values))),
           measurements |-> Len(values) ]

\* math.sqrt on the sums of squares that are squares of whole numbers: the
\* guide samples of the model are chosen among these
Sqrt(n) == CHOOSE r \in 0..n : r * r = n

\* guide_stats of a sub-session, lines 555-583
GuideStats(self, guide_data) ==
    LET calculated_distances ==
            [ i \in 1..Len(guide_data) |->
                Sqrt(guide_data[i].dx * guide_data[i].dx
                     + guide_data[i].dy * guide_data[i].dy) ]
        rms_values ==
            SelectSeq([i \in 1..Len(guide_data) |-> guide_data[i].rms],
                      LAMBDA r : r > 0)
        filtered_distances ==
            SelectSeq(calculated_distances, LAMBDA d : d <= 10)
        avg_distance == RatAvg(Whole(filtered_distances))
    IN  IF guide_data = <<>> \/ filtered_distances = <<>>
        THEN [ avg_distance  |-> Rat(0, 1),
               avg_rms       |-> Rat(0, 1),
               guide_quality |-> "No Data",
               measurements  |-> 0 ]
        ELSE [ avg_distance  |-> avg_distance,
               avg_rms       |-> IF rms_values # <<>>
                                 THEN RatAvg(Whole(rms_values))
                                 ELSE Rat(0, 1),
               guide_quality |->
                   _calculate_guide_quality_from_distance(
                       self, << avg_distance >>),
               measurements  |-> Len(guide_data) ]

\* star_stats of a sub-session, lines 585-605
StarStats(star_counts) ==
    IF star_counts = <<>>
    THEN [min |-> None, max |-> None, avg |-> None, consistency |-> Rat(1, 1)]
    ELSE [ min         |-> Some(MinOf(star_counts)),
           max         |-> Some(MaxOf(star_counts)),
           avg         |-> Some(RatSum(Whole(star_counts)).num
                                \div Len(star_counts)),
           consistency |-> IF MaxOf(star_counts) > 0
                           THEN Rat(MinOf(star_counts), MaxOf(star_counts))
                           ELSE Rat(1, 1) ]

_calculate_sub_session_metrics(self, sub_session_captures, guide_data) ==
    [ hfr_stats   |-> ValueStats(Values(sub_session_captures, "hfr")),
      fwhm_stats  |-> ValueStats(Values(sub_session_captures, "fwhm")),
      guide_stats |-> GuideStats(self, guide_data),
      star_stats  |-> StarStats(Values(sub_session_captures, "stars")) ]

\* timestamp_to_guide[guide_point['timestamp']] = guide_point, lines 832-835:
\* a later sample replaces an earlier one of the same timestamp
RECURSIVE GuideByTimestamp(_, _)
GuideByTimestamp(dict, points) ==
    IF points = <<>> THEN dict
    ELSE LET guide_point == Head(points)
             same == {i \in 1..Len(dict) :
                          dict[i].timestamp = guide_point.timestamp}
         IN  GuideByTimestamp(
                 IF same = {} THEN Append(dict, guide_point)
                 ELSE [dict EXCEPT ![CHOOSE i \in same : TRUE] = guide_point],
                 Tail(points))

\* expanded_start_ts, lines 895-908: the earliest CaptureStarting of the
\* filter of a capture of the sub-session less than 20 minutes from it
ExpandedStart(sub_session_captures, sessions) ==
    LET start_ts == MinTimestamp(sub_session_captures)
        capture_events ==
            Concat([k \in 1..Len(sessions) |-> sessions[k].captures])
        starts ==
            { capture_events[j].timestamp : j \in
                { j \in 1..Len(capture_events) :
                    /\ capture_events[j].event = "starting"
                    /\ \E i \in 1..Len(sub_session_captures) :
                          /\ capture_events[j].filter
                                 = sub_session_captures[i].filter
                          /\ Abs(sub_session_captures[i].timestamp
                                 - capture_events[j].timestamp) < 1200 } }
        all == starts \cup {start_ts}
    IN  CHOOSE t \in all : \A u \in all : t <= u

\* sub_session_guide_data, lines 910-919: the samples from 30 seconds before
\* the expanded start to 30 seconds after the last capture
GuideWindow(sub_session_captures, sessions) ==
    LET timestamp_to_guide ==
            GuideByTimestamp(
                <<>>,
                Concat([k \in 1..Len(sessions) |-> sessions[k].guide_stats]))
        guide_window_start == ExpandedStart(sub_session_captures, sessions) - 30
        guide_window_end == MaxTimestamp(sub_session_captures) + 30
    IN  SelectSeq(timestamp_to_guide,
                  LAMBDA guide_point :
                      /\ guide_window_start <= guide_point.timestamp
                      /\ guide_point.timestamp <= guide_window_end)

\* datetime.strptime(session['session_start'], ...), lines 676-689, in
\* seconds from 2025-01-01 00:00:00: absent for a session without a start
\* text or with one that neither format parses
StartTime(session) ==
    IF IsNone(session.session_start) \/ Get(session.session_start) = <<>>
    THEN None
    ELSE IF Get(session.session_start) = <<"2025-01-01 20:00:00">>
    THEN Some(72000)
    ELSE IF Get(session.session_start) = <<"2025-01-01 23:59:30">>
    THEN Some(86370)
    ELSE None

\* session_start_map, lines 801-812: the parsed start of each session that
\* has one, under its file; the text is cut at its first '.' and parsed
\* without a fraction
SessionStartMap(sessions) ==
    [ k \in {j \in 1..Len(sessions) : ~IsNone(StartTime(sessions[j]))} |->
        [ filepath |-> sessions[k].filepath,
          start    |-> Get(StartTime(sessions[k])) ] ]

\* session_start_map[capture['source_session']] of the first capture of the
\* sub-session whose source session has a start, else the first value of
\* the map, else None; lines 873-883
SubSessionStart(sub_session_captures, sessions) ==
    LET session_start_map == SessionStartMap(sessions)
        mapped(i) == { k \in DOMAIN session_start_map :
                         Some(session_start_map[k].filepath)
                           = sub_session_captures[i].source_session }
        found == { i \in 1..Len(sub_session_captures) : mapped(i) # {} }
        first == CHOOSE i \in found : \A h \in found : i <= h
    IN  IF found # {}
        THEN Some(session_start_map[CHOOSE k \in mapped(first) : TRUE].start)
        ELSE IF DOMAIN session_start_map # {}
        THEN Some(session_start_map[
                 CHOOSE k \in DOMAIN session_start_map :
                     \A h \in DOMAIN session_start_map : k <= h].start)
        ELSE None

\* strftime('%H:%M') of the start plus the offset, or the offset as
\* T+HH:MM without a start; lines 886-894
TimeFormatted(session_start_time, ts) ==
    IF ~IsNone(session_start_time)
    THEN [ relative |-> FALSE,
           hour     |-> ((Get(session_start_time) + ts) \div 3600) % 24,
           minute   |-> ((Get(session_start_time) + ts) \div 60) % 60 ]
    ELSE [ relative |-> TRUE,
           hour     |-> ts \div 3600,
           minute   |-> (ts % 3600) \div 60 ]

\* sub_session_analysis, lines 866-945
SubSessionAnalysis(self, sub_sessions, sessions) ==
    [ i \in 1..Len(sub_sessions) |->
        LET metrics ==
                _calculate_sub_session_metrics(
                    self, sub_sessions[i],
                    GuideWindow(sub_sessions[i], sessions))
        IN  [ sub_session_id   |-> i,
              capture_count    |-> Len(sub_sessions[i]),
              start_timestamp  |-> MinTimestamp(sub_sessions[i]),
              end_timestamp    |-> MaxTimestamp(sub_sessions[i]),
              duration_minutes |->
                  Rat(MaxTimestamp(sub_sessions[i])
                      - ExpandedStart(sub_sessions[i], sessions), 60),
              exposure_time    |-> sub_sessions[i][1].exposure,
              start_time_formatted |->
                  TimeFormatted(SubSessionStart(sub_sessions[i], sessions),
                                MinTimestamp(sub_sessions[i])),
              end_time_formatted |->
                  TimeFormatted(SubSessionStart(sub_sessions[i], sessions),
                                MaxTimestamp(sub_sessions[i])),
              hfr_stats        |-> metrics.hfr_stats,
              fwhm_stats       |-> metrics.fwhm_stats,
              guide_stats      |-> metrics.guide_stats,
              star_stats       |-> metrics.star_stats,
              captures         |-> sub_sessions[i] ] ]

RECURSIVE Total(_)
Total(counts) == IF counts = <<>> THEN 0 ELSE Head(counts) + Total(Tail(counts))

WeightedAverage_mean_of_means(averages, measurements) ==
    LET used == {i \in 1..Len(averages) : measurements[i] > 0} IN
    RatOver(RatSum([i \in 1..Len(averages) |->
                       IF i \in used THEN averages[i] ELSE Rat(0, 1)]),
            Cardinality(used))
\* sum(avg * measurements for the sub-sessions that have some) /
\* total_measurements, lines 957-958, 974-975 and 991-994
WeightedAverage(averages, measurements) ==
    RatOver(RatSum([i \in 1..Len(averages) |->
                       IF measurements[i] > 0
                       THEN RatTimes(averages[i], measurements[i])
                       ELSE Rat(0, 1)]),
            Total(measurements))

\* global_hfr_stats and global_fwhm_stats, lines 955-986
GlobalValueStats(analyzed_sub_sessions, stats, key) ==
    LET n == Len(analyzed_sub_sessions)
        measurements ==
            [i \in 1..n |-> analyzed_sub_sessions[i][stats].measurements]
        averages ==
            [i \in 1..n |->
                IF IsNone(analyzed_sub_sessions[i][stats].avg) THEN Rat(0, 1)
                ELSE Get(analyzed_sub_sessions[i][stats].avg)]
        all_values ==
            Concat([i \in 1..n |->
                       Values(analyzed_sub_sessions[i].captures, key)])
    IN  IF Total(measurements) > 0
        THEN [ avg |-> Some(WeightedAverage(averages, measurements)),
               min |-> IF all_values # <<>> THEN Some(MinOf(all_values))
                       ELSE None,
               max |-> IF all_values # <<>> THEN Some(MaxOf(all_values))
                       ELSE None,
               measurements |-> Total(measurements) ]
        ELSE [ avg |-> None, min |-> None, max |-> None,
               measurements |-> Total(measurements) ]

\* global_guide_stats, lines 988-1000
GlobalGuideStats(self, analyzed_sub_sessions) ==
    LET n == Len(analyzed_sub_sessions)
        measurements ==
            [i \in 1..n |-> analyzed_sub_sessions[i].guide_stats.measurements]
        weighted_avg_distance ==
            WeightedAverage(
                [i \in 1..n |-> analyzed_sub_sessions[i].guide_stats.avg_distance],
                measurements)
    IN  IF Total(measurements) > 0
        THEN [ avg_distance  |-> weighted_avg_distance,
               avg_rms       |->
                   WeightedAverage(
                       [i \in 1..n |->
                           analyzed_sub_sessions[i].guide_stats.avg_rms],
                       measurements),
               guide_quality |->
                   _calculate_guide_quality_from_distance(
                       self, << weighted_avg_distance >>),
               total_measurements |-> Total(measurements) ]
        ELSE [ avg_distance  |-> Rat(0, 1),
               avg_rms       |-> Rat(0, 1),
               guide_quality |-> "No Data",
               total_measurements |-> Total(measurements) ]

\* _build_enhanced_filter_analysis: per filter, the captures sorted by
\* timestamp and cut into sub-sessions, the metrics of each sub-session and
\* the statistics of the filter
_build_enhanced_filter_analysis(self, capture_summary, sessions) ==
    LET filters == {capture_summary[i].key[2] : i \in 1..Len(capture_summary)}
    IN  [ filter_name \in filters |->
            LET all_filter_captures ==
                    FilterCaptures(capture_summary, filter_name)
                sorted_captures == SortedByTimestamp(all_filter_captures)
                analyzed_sub_sessions ==
                    SubSessionAnalysis(
                        self, SegmentLoop(sorted_captures, 1, <<>>, <<>>),
                        sessions)
                total_duration_minutes ==
                    RatSum([i \in 1..Len(analyzed_sub_sessions) |->
                               analyzed_sub_sessions[i].duration_minutes])
            IN  [ total_captures     |-> Len(all_filter_captures),
                  total_sub_sessions |-> Len(analyzed_sub_sessions),
                  total_duration_minutes |-> total_duration_minutes,
                  total_duration_hours   |-> RatOver(total_duration_minutes, 60),
                  exposure_time      |-> analyzed_sub_sessions[1].exposure_time,
                  sub_sessions       |-> analyzed_sub_sessions,
                  global_hfr_stats   |->
                      GlobalValueStats(analyzed_sub_sessions,
                                       "hfr_stats", "hfr"),
                  global_fwhm_stats  |->
                      GlobalValueStats(analyzed_sub_sessions,
                                       "fwhm_stats", "fwhm"),
                  global_guide_stats |->
                      GlobalGuideStats(self, analyzed_sub_sessions) ] ]

\* EkosAnalyzer(analyze_dir=analyze_dir): no pixel scale, default thresholds
DefaultAnalyzer == NewAnalyzer(None, None)

\* session_duration, lines 673-720: from the earliest parsed start to the
\* latest start + last capture offset; None without both
SessionDuration(sessions) ==
    LET timed == {k \in 1..Len(sessions) : ~IsNone(StartTime(sessions[k]))}
        starts == {Get(StartTime(sessions[k])) : k \in timed}
        ends == {Get(StartTime(sessions[k]))
                     + MaxTimestamp(sessions[k].captures) :
                 k \in {j \in timed : sessions[j].captures # <<>>}}
    IN  IF starts = {} \/ ends = {} THEN None
        ELSE LET earliest_start == CHOOSE t \in starts : \A u \in starts : t <= u
                 latest_end == CHOOSE t \in ends : \A u \in ends : t >= u
             IN  Some([ start          |-> earliest_start,
                        end            |-> latest_end,
                        duration_hours |->
                            Rat(latest_end - earliest_start, 3600) ])

\* The report built from the sessions kept, lines 622-792: {} without any
Report(sessions) ==
    IF sessions = <<>> THEN <<>>
    ELSE
    LET tagged == [ k \in 1..Len(sessions) |->
                      [sessions[k] EXCEPT
                          !.captures = TaggedAll(@, sessions)] ]
        capture_summary == BuildSummary(<<>>, tagged)
        all_scheduler_jobs ==
            Concat([k \in 1..Len(sessions) |-> sessions[k].scheduler_jobs])
    IN  [ sessions        |-> tagged,
          total_captures  |->
              Len(Concat([k \in 1..Len(sessions) |->
                             Completed(sessions[k].captures)])),
          capture_summary |-> capture_summary,
          filter_analysis |->
              _build_enhanced_filter_analysis(DefaultAnalyzer,
                                              capture_summary, tagged),
          session_duration |-> SessionDuration(sessions),
          target_objects  |->
              {all_scheduler_jobs[i].object_name :
                   i \in 1..Len(all_scheduler_jobs)} \ {<<>>},
          issues_summary  |->
              Concat([k \in 1..Len(sessions) |-> sessions[k].issues]) ]

\* The loop of lines 613-618: each file parsed, backfilled, and kept if it
\* has captures or autofocus runs
RECURSIVE CollectSessions(_)
CollectSessions(session_files) ==
    IF session_files = <<>> THEN <<>>
    ELSE LET f == Head(session_files)
             sd == _associate_autofocus_with_captures(
                       parse_analyze_file(f.filepath, f.lines))
         IN  (IF sd.captures # <<>> \/ sd.autofocus_sessions # <<>>
              THEN <<sd>> ELSE <<>>) \o CollectSessions(Tail(session_files))

\* aggregate_session_data(session_files), the files given by their lines
aggregate_session_data(session_files) ==
    Report(CollectSessions(session_files))

(***************************************************************************)
(* AnalyzeFileWatcher                                                      *)
(***************************************************************************)

\* AnalyzeFileWatcher.__init__
NewWatcher == [current_file |-> None, file_position |-> 0]

\* find_latest_file(): the most recently modified *.analyze file, if any
find_latest_file(order) ==
    IF order = <<>> THEN None ELSE Some(order[Len(order)])

\* check_for_new_file()
check_for_new_file(order, w) ==
    LET latest == find_latest_file(order) IN
    IF ~IsNone(latest) /\ latest # w.current_file THEN latest ELSE None

\* The line list built from the data read: split on the line terminator,
\* keep the pieces that are not blank
LinesOf(new_data) ==
    SelectSeq(Split(new_data, "\n"), LAMBDA l : Strip(l) # <<>>)

\* Variant: the offset is not moved, the same text is returned again
read_new_lines_unmoved(fs, w) ==
    IF IsNone(w.current_file) \/ Get(w.current_file) \notin DOMAIN fs
    THEN [w |-> w, out |-> <<>>]
    ELSE LET content == fs[Get(w.current_file)]
             new_data == SubSeq(content, w.file_position + 1, Len(content))
         IN  [w |-> w, out |-> LinesOf(new_data)]

\* read_new_lines(): the watcher afterwards and the list returned
read_new_lines(fs, w) ==
    IF IsNone(w.current_file) \/ Get(w.current_file) \notin DOMAIN fs
    THEN [w |-> w, out |-> <<>>]
    ELSE LET content == fs[Get(w.current_file)]
             new_data == SubSeq(content, w.file_position + 1, Len(content))
             w1 == [w EXCEPT !.file_position =
                       IF @ <= Len(content) THEN Len(content) ELSE @]
         IN  IF new_data = <<>> THEN [w |-> w1, out |-> <<>>]
             ELSE [w |-> w1, out |-> LinesOf(new_data)]

\* Variant: the offset is moved to the end of the file before the failure
read_failure_advancing(fs, w) ==
    [ w |-> [w EXCEPT !.file_position = Len(fs[Get(w.current_file)])],
      out |-> <<>> ]

\* read_new_lines() when open, seek or read raises, lines 57-60 and 69-71:
\* the offset is assigned only after the read, the handler logs and
\* returns []
read_failure(fs, w) == [w |-> w, out |-> <<>>]

\* Variant: from_beginning is ignored, the watcher starts at offset 0
switch_to_file_from_start(fs, w, filepath, from_beginning) ==
    [w EXCEPT !.current_file = Some(filepath), !.file_position = 0]

\* Variant: from_beginning is ignored, the watcher starts at the end
switch_to_file_at_end(fs, w, filepath, from_beginning) ==
    [w EXCEPT !.current_file = Some(filepath),
              !.file_position =
                  IF filepath \in DOMAIN fs THEN Len(fs[filepath]) ELSE 0]

\* switch_to_file(filepath, from_beginning)
switch_to_file(fs, w, filepath, from_beginning) ==
    [w EXCEPT !.current_file = Some(filepath),
              !.file_position =
                  IF from_beginning THEN 0
                  ELSE IF filepath \in DOMAIN fs THEN Len(fs[filepath])
                  ELSE 0]

(***************************************************************************)
(* RealtimeMonitor                                                         *)
(***************************************************************************)

\* _reset_session_stats(); the alignment counters, created on first use by
\* _process_events with a default of 0, are carried as 0 from the start
ResetStats ==
    [ captures_complete |-> 0,
      captures_aborted  |-> 0,
      autofocus_success |-> 0,
      autofocus_failed  |-> 0,
      scheduler_jobs    |-> <<>>,
      session_start     |-> None,
      align_success     |-> 0,
      align_failed      |-> 0 ]

\* RealtimeMonitor.__init__
NewMonitor(timeout) ==
    [ session_timeout |-> timeout,
      running         |-> FALSE,
      last_event_time |-> None,
      session_active  |-> FALSE,
      session_stats   |-> ResetStats ]

\* A call of a notifier method, with the wall-clock time it is made at
Call(name, arg, clock) == [call |-> name, arg |-> arg, at |-> clock]

\* The monitor and the notifier log after a step
MS(m, out) == [m |-> m, sent |-> out]

\* _start_session(start_time_str, timezone)
_start_session(m, out, clock, start_time_str, timezone) ==
    MS([m EXCEPT !.session_active = TRUE,
                 !.session_stats =
                     [ResetStats EXCEPT !.session_start = Some(start_time_str)],
                 !.last_event_time = Some(clock)],
       Append(out, Call("notify_session_start", <<start_time_str, timezone>>,
                       clock)))

\* Variant: the session stays active after its summary
_end_session_stays_active(m, out, clock) ==
    IF ~m.session_active THEN MS(m, out)
    ELSE MS([m EXCEPT !.session_stats = ResetStats],
            Append(out, Call("notify_session_end", m.session_stats, clock)))

\* _end_session()
_end_session(m, out, clock) ==
    IF ~m.session_active THEN MS(m, out)
    ELSE MS([m EXCEPT !.session_active = FALSE,
                      !.session_stats = ResetStats],
            Append(out, Call("notify_session_end", m.session_stats, clock)))

\* Variant: the session ends as soon as the timeout is reached
TimedOut_reached(m, clock) ==
    clock - Get(m.last_event_time) >= m.session_timeout

\* now - last_event_time > timedelta(minutes=session_timeout)
TimedOut(m, clock) == clock - Get(m.last_event_time) > m.session_timeout

\* _check_session_timeout()
_check_session_timeout(m, out, clock) ==
    IF ~m.session_active \/ IsNone(m.last_event_time) THEN MS(m, out)
    ELSE IF TimedOut(m, clock) THEN _end_session(m, out, clock)
    ELSE MS(m, out)

Stat(m, key) == m.session_stats[key]

\* The body of the loop of _process_events for one event
ProcessEvent(m0, out, clock, event) ==
    LET m == [m0 EXCEPT !.last_event_time = Some(clock)]
        t == event.type
        Bump(key) == [m EXCEPT !.session_stats[key] = @ + 1]
    IN
    IF t = "session_start"
        THEN _start_session(m, out, clock, event.start_time, event.timezone)
    ELSE IF t = "capture_complete"
        THEN MS(Bump("captures_complete"),
                Append(out, Call("notify_capture_complete",
                                 <<event, Stat(m, "captures_complete") + 1>>,
                                 clock)))
    ELSE IF t = "capture_aborted"
        THEN MS(Bump("captures_aborted"),
                Append(out, Call("notify_capture_aborted",
                                 <<event, Stat(m, "captures_aborted") + 1>>,
                                 clock)))
    ELSE IF t = "autofocus_complete"
        THEN MS(Bump("autofocus_success"),
                Append(out, Call("notify_autofocus_complete", event, clock)))
    ELSE IF t = "autofocus_aborted"
        THEN MS(Bump("autofocus_failed"),
                Append(out, Call("notify_autofocus_aborted", event, clock)))
    ELSE IF t = "scheduler_job_start"
        THEN MS([m EXCEPT !.session_stats.scheduler_jobs =
                    IF \E i \in 1..Len(@) : @[i] = event.job_name THEN @
                    ELSE Append(@, event.job_name)],
                Append(out, Call("notify_scheduler_job_start", event, clock)))
    ELSE IF t = "scheduler_job_end"
        THEN MS(m, Append(out, Call("notify_scheduler_job_end", event, clock)))
    ELSE IF t = "guide_problem"
        THEN MS(m, Append(out, Call("notify_guide_problem", event, clock)))
    ELSE IF t = "align_complete"
        THEN MS(Bump("align_success"),
                Append(out, Call("notify_align_complete", event, clock)))
    ELSE IF t = "align_failed"
        THEN MS(Bump("align_failed"),
                Append(out, Call("notify_align_failed", event, clock)))
    ELSE IF t = "meridian_flip"
        THEN MS(m, Append(out, Call("notify_meridian_flip", event, clock)))
    ELSE MS(m, out)

\* _process_events(events)
RECURSIVE _process_events(_, _, _, _)
_process_events(m, out, clock, evs) ==
    IF evs = <<>> THEN MS(m, out)
    ELSE LET r == ProcessEvent(m, out, clock, Head(evs)) IN
         _process_events(r.m, r.sent, clock, Tail(evs))

NoWatcher ==
    /\ files = <<>>
    /\ mtime_order = <<>>
    /\ watcher = NewWatcher
    /\ returned = <<>>
    /\ read_errors = 0

NoMonitor ==
    /\ monitor = <<>>
    /\ pc = "none"
    /\ new_file = None
    /\ now = 0
    /\ sent = <<>>

NoBatch ==
    /\ input = <<>>
    /\ next_file = 1
    /\ session_data = None
    /\ all_sessions = <<>>
    /\ output = None
    /\ parses = <<>>

(***************************************************************************)
(* Feeding lines to the streaming parser                                   *)
(***************************************************************************)

\* One more line goes through process_lines; events[i] are the events
\* returned for lines[i]
ProcessLine(l) ==
    LET r == process_lines(config, parser, <<l>>) IN
    /\ parser' = r.p
    /\ lines' = Append(lines, l)
    /\ events' = Append(events, r.ev)
    /\ UNCHANGED <<config, watcherVars, monitorVars, batchVars>>

InitParser(cfgs) ==
    /\ config \in cfgs
    /\ parser = reset
    /\ lines = <<>>
    /\ events = <<>>
    /\ NoWatcher
    /\ NoMonitor
    /\ NoBatch

Config(th, n, w) ==
    [guide_lost_threshold |-> th, reacquire_alert_count |-> n,
     reacquire_alert_window |-> w]

GuideLine(t, state) == Join(<<"GuideState", ToString(t), state>>)

\* Reading a fed line back (reference side of the claims)
LineCmd(l) == Split(l, ",")[1][1]
LineTime(l) == NumTable[Split(l, ",")[2][1]]
LineArg(l) == Split(l, ",")[3][1]

HasEvent(i, type, subtype) ==
    \E k \in 1..Len(events[i]) :
        /\ events[i][k].type = type
        /\ events[i][k].subtype = subtype

CountEvent(i, type, subtype) ==
    Cardinality({k \in 1..Len(events[i]) :
        events[i][k].type = type /\ events[i][k].subtype = subtype})

(***************************************************************************)
(* SpecLost: Guiding / Aborted / Idle lines                                *)
(***************************************************************************)
LostTimes == {10, 50, 80}
LostStates == {"Guiding", "Aborted", "Idle"}
LostLines == {GuideLine(t, st) : t \in LostTimes, st \in LostStates}
LostConfigs == {Config(30, 5, 300), Config(0, 5, 300)}

InitLost == InitParser(LostConfigs)

FeedLost ==
    /\ Len(lines) < MaxGuideLines
    /\ \E l \in LostLines : ProcessLine(l)

NextLost == FeedLost

SpecLost == InitLost /\ [][NextLost]_vars

IsLossLine(i) == LineArg(lines[i]) \in {"Aborted", "Idle"}
IsGuidingLine(i) == LineArg(lines[i]) = "Guiding"

\* The line that opened the loss episode line i belongs to (0 if none): the
\* first Aborted/Idle line after the last Guiding line before i
LastGuiding(i) ==
    LET gs == {g \in 1..(i - 1) : IsGuidingLine(g)} IN
    IF gs = {} THEN 0 ELSE CHOOSE g \in gs : \A h \in gs : h <= g

EpisodeOpener(i) ==
    LET g == LastGuiding(i) IN
    IF g = 0 \/ ~IsLossLine(i) THEN 0
    ELSE CHOOSE o \in (g + 1)..i :
            IsLossLine(o) /\ \A j \in (g + 1)..(o - 1) : ~IsLossLine(j)

ThresholdReached(i, o) ==
    LineTime(lines[i]) - LineTime(lines[o]) >= config.guide_lost_threshold

\* Line i is the first Aborted/Idle line of its episode at which the
\* threshold is reached
LostExpected(i) ==
    LET o == EpisodeOpener(i) IN
    /\ o # 0
    /\ ThresholdReached(i, o)
    /\ \A j \in o..(i - 1) : IsLossLine(j) => ~ThresholdReached(j, o)

\* C1: in every loss episode exactly the first Aborted/Idle line whose time
\* is at least guide_lost_threshold after the loss start emits a `lost`
\* notification, it emits one, no other line emits any, and with a positive
\* threshold the line that opens the episode emits none.
C1_LostOncePerEpisode ==
    \A i \in 1..Len(lines) :
        /\ HasEvent(i, "guide_problem", "lost") <=> LostExpected(i)
        /\ CountEvent(i, "guide_problem", "lost") <= 1
        /\ (config.guide_lost_threshold > 0 /\ EpisodeOpener(i) = i)
              => ~HasEvent(i, "guide_problem", "lost")

\* An episode with a positive threshold: opened silently, alerted at a later
\* line, and silent again at a further Aborted/Idle line
C1_Witness ==
    /\ config.guide_lost_threshold > 0
    /\ \E o, i, k \in 1..Len(lines) :
        /\ o < i /\ i < k
        /\ EpisodeOpener(i) = o /\ EpisodeOpener(k) = o
        /\ ~HasEvent(o, "guide_problem", "lost")
        /\ HasEvent(i, "guide_problem", "lost")
        /\ ~HasEvent(k, "guide_problem", "lost")

\* The Aborted/Idle line that recorded the loss start still open when line
\* i arrives (0 if none): the first one after the last Guiding line before i
OpenLoss(i) ==
    LET g == LastGuiding(i)
        os == {o \in (g + 1)..(i - 1) : IsLossLine(o)}
    IN  IF g = 0 \/ os = {} THEN 0
        ELSE CHOOSE o \in os : \A j \in os : o <= j

\* C13: a Guiding line that arrives while a loss start is recorded and not
\* yet cleared emits a `recovered` notification whose duration is its time
\* minus the loss start time, and leaves the lost tracking cleared.
C13_RecoveredOnGuiding ==
    \A i \in 1..Len(lines) :
        (IsGuidingLine(i) /\ OpenLoss(i) # 0) =>
            /\ \E k \in 1..Len(events[i]) :
                 /\ events[i][k].type = "guide_problem"
                 /\ events[i][k].subtype = "recovered"
                 /\ events[i][k].duration
                        = LineTime(lines[i]) - LineTime(lines[OpenLoss(i)])
            /\ i = Len(lines) => /\ IsNone(parser.guide_lost_time)
                                 /\ ~parser.guide_lost_alerted

(***************************************************************************)
(* SpecPass: guide states with and without a branch in the handler         *)
(***************************************************************************)
PassStates ==
    {"Dithering", "Calibrating", "Looping", "SelectingStar", "Selecting star"}
PassLines ==
    { GuideLine(t, st) :
          t \in {10, 50},
          st \in PassStates \cup {"Guiding", "Aborted", "Reacquiring"} }

InitPass == InitParser({Config(30, 2, 300)})

FeedPass ==
    /\ Len(lines) < MaxPassLines
    /\ \E l \in PassLines : ProcessLine(l)

NextPass == FeedPass

SpecPass == InitPass /\ [][NextPass]_vars

\* C25: a GuideState line with state Dithering, Calibrating, Looping or
\* SelectingStar (or "Selecting star", as the handler spells it) returns no
\* event and leaves guiding_active, guide_lost_time, guide_lost_alerted,
\* the reacquire times and the time of the last reacquire alert as they
\* were.
C25_PassThroughStates ==
    [][ ( /\ Len(lines') = Len(lines) + 1
          /\ LineCmd(lines'[Len(lines')]) = "GuideState"
          /\ LineArg(lines'[Len(lines')]) \in PassStates )
        => /\ events'[Len(events')] = <<>>
           /\ parser'.guiding_active = parser.guiding_active
           /\ parser'.guide_lost_time = parser.guide_lost_time
           /\ parser'.guide_lost_alerted = parser.guide_lost_alerted
           /\ parser'.reacquire_times = parser.reacquire_times
           /\ parser'.reacquire_alerted_at = parser.reacquire_alerted_at
      ]_vars

\* Dithering arrives 40 s into an open loss that was not alerted yet, past
\* the threshold of 30 s: the loss stays open and unalerted
C25_Witness ==
    /\ Len(lines) = 3
    /\ lines[1] = GuideLine(10, "Guiding")
    /\ lines[2] = GuideLine(10, "Aborted")
    /\ lines[3] = GuideLine(50, "Dithering")
    /\ events[3] = <<>>
    /\ parser.guide_lost_time = Some(10)
    /\ ~parser.guide_lost_alerted
    /\ ~parser.guiding_active

(***************************************************************************)
(* SpecMount: MountState lines                                             *)
(***************************************************************************)
MountStates == {"Parking", "Parked", "Idle", "Tracking"}
MountLines ==
    {Join(<<"MountState", ToString(t), st>>) : t \in {10, 20}, st \in MountStates}

InitMount == InitParser({Config(30, 5, 300)})

FeedMount ==
    /\ Len(lines) < MaxMountLines
    /\ \E l \in MountLines : ProcessLine(l)

NextMount == FeedMount

SpecMount == InitMount /\ [][NextMount]_vars

\* The parking flag when line i arrives, read off the lines: set iff the
\* mount state of the line before is Parking
ParkingBefore(i) == i > 1 /\ LineArg(lines[i - 1]) = "Parking"

ParkingEvent(i, state) ==
    << [type |-> "mount_parking", time |-> LineTime(lines[i]),
        clock_time |-> _to_clock_time(reset, LineTime(lines[i])),
        state |-> state] >>

\* C14: a Parking line emits mount_parking{Parking} iff the parking flag is
\* not set; a Parked line emits mount_parking{Parked} iff it is set, that
\* is iff the mount state before was Parking; no other line emits anything;
\* every mount state other than Parking clears the flag.
C14_ParkingAlerts ==
    /\ \A i \in 1..Len(lines) :
         events[i] =
            IF LineArg(lines[i]) = "Parking" /\ ~ParkingBefore(i)
            THEN ParkingEvent(i, "Parking")
            ELSE IF LineArg(lines[i]) = "Parked" /\ ParkingBefore(i)
            THEN ParkingEvent(i, "Parked")
            ELSE <<>>
    /\ lines # <<>> =>
         (parser.mount_parking <=> LineArg(lines[Len(lines)]) = "Parking")

\* Parking twice, then Parked, then Parked again: one Parking and one Parked
\* notification
C14_Witness ==
    /\ Len(lines) = 4
    /\ events[1] = ParkingEvent(1, "Parking")
    /\ LineArg(lines[2]) = "Parking" /\ events[2] = <<>>
    /\ events[3] = ParkingEvent(3, "Parked")
    /\ LineArg(lines[4]) = "Parked" /\ events[4] = <<>>

(***************************************************************************)
(* SpecAlign: AlignState lines                                             *)
(***************************************************************************)
AlignStates ==
    {"In Progress", "Complete", "Successful", "Failed", "Aborted", "Idle"}
AlignLines ==
    {Join(<<"AlignState", ToString(t), st>>) : t \in {0, 10, 50},
                                               st \in AlignStates}

InitAlign == InitParser({Config(30, 5, 300)})

FeedAlign ==
    /\ Len(lines) < MaxAlignLines
    /\ \E l \in AlignLines : ProcessLine(l)

NextAlign == FeedAlign

SpecAlign == InitAlign /\ [][NextAlign]_vars

IsAlignEnd(i) ==
    LineArg(lines[i]) \in {"Complete", "Successful", "Failed", "Aborted"}

\* The In Progress lines whose alignment is still running when line i
\* arrives: no ending line stands between them and i
RunningAligns(i) ==
    {j \in 1..(i - 1) : /\ LineArg(lines[j]) = "In Progress"
                        /\ \A k \in (j + 1)..(i - 1) : ~IsAlignEnd(k)}

AlignEvents(i, type) ==
    SelectSeq(events[i], LAMBDA e : e.type = type)

\* C15: after an In Progress line at t0, a Complete or Successful line at
\* t1 emits exactly one align_complete with duration t1 - t0, a Failed or
\* Aborted line at t1 exactly one align_failed with duration t1 - t0 and
\* its state; a line with any other state emits nothing.
C15_AlignDurations ==
    \A i \in 1..Len(lines) :
        LET st == LineArg(lines[i])
            t1 == LineTime(lines[i])
            ok(e) == \E j \in RunningAligns(i) :
                        e.duration = t1 - LineTime(lines[j])
        IN  /\ (st \in {"Complete", "Successful"} /\ RunningAligns(i) # {}) =>
                 /\ Len(AlignEvents(i, "align_complete")) = 1
                 /\ ok(AlignEvents(i, "align_complete")[1])
            /\ (st \in {"Failed", "Aborted"} /\ RunningAligns(i) # {}) =>
                 /\ Len(AlignEvents(i, "align_failed")) = 1
                 /\ ok(AlignEvents(i, "align_failed")[1])
                 /\ AlignEvents(i, "align_failed")[1].state = <<st>>
            /\ ~IsAlignEnd(i) => events[i] = <<>>

(***************************************************************************)
(* SpecReacq: Reacquiring lines                                            *)
(***************************************************************************)
ReacqTimes == {5, 10, 20, 50, 60}
ReacqLines == {GuideLine(t, "Reacquiring") : t \in ReacqTimes}
                 \cup {GuideLine(20, "Guiding")}
ReacqConfigs == {Config(30, 2, 30), Config(30, 3, 30)}

InitReacq == InitParser(ReacqConfigs)

FeedReacq ==
    /\ Len(lines) < MaxGuideLines
    /\ \E l \in ReacqLines : ProcessLine(l)

NextReacq == FeedReacq

SpecReacq == InitReacq /\ [][NextReacq]_vars

IsReacqLine(i) == LineArg(lines[i]) = "Reacquiring"

\* Reacquiring lines up to line i whose time lies in the window ending at
\* line i
WindowLines(i) ==
    {j \in 1..i : /\ IsReacqLine(j)
                  /\ LineTime(lines[j]) > LineTime(lines[i])
                                            - config.reacquire_alert_window
                  /\ LineTime(lines[j]) <= LineTime(lines[i])}

\* No frequent_reacquire alert was raised before line i within the window
NoAlertBefore(i) ==
    \A j \in 1..(i - 1) :
        HasEvent(j, "guide_problem", "frequent_reacquire")
            => LineTime(lines[i]) - LineTime(lines[j])
                  > config.reacquire_alert_window

TimesAscendUpTo(i) ==
    \A j, k \in 1..i : j < k => LineTime(lines[j]) <= LineTime(lines[k])

\* C2: the N-th Reacquiring line inside one window of W seconds, with no
\* alert raised before it in that window, emits exactly one
\* frequent_reacquire notification; a Reacquiring line within W seconds of
\* an earlier alert emits none.
C2_AlertOnNth ==
    \A i \in 1..Len(lines) :
        /\ ( /\ IsReacqLine(i)
             /\ TimesAscendUpTo(i)
             /\ Cardinality(WindowLines(i)) = config.reacquire_alert_count
             /\ NoAlertBefore(i) )
           => CountEvent(i, "guide_problem", "frequent_reacquire") = 1
        /\ (IsReacqLine(i) /\ ~NoAlertBefore(i))
           => CountEvent(i, "guide_problem", "frequent_reacquire") = 0

(***************************************************************************)
(* SpecCapture: CaptureStarting / CaptureComplete / CaptureAborted lines   *)
(***************************************************************************)
PicturesFile ==
    <<"/", "home", "/", "Pictures", "/", "IC", "_", "434", "/", "a.fits">>

CaptureStartingLine(t, exposure) ==
    Join(<<"CaptureStarting", ToString(t), exposure, "L">>)
CaptureCompleteLine(t, hfr) ==
    JoinParts(<< <<"CaptureComplete">>, <<ToString(t)>>, <<"60">>, <<"L">>,
                 <<hfr>>, PicturesFile >>)
CaptureAbortedLine(t) == Join(<<"CaptureAborted", ToString(t), "60">>)

CaptureLines ==
    {CaptureStartingLine(t, e) : t \in {0, 10}, e \in {"60", "abc"}}
    \cup {CaptureCompleteLine(t, h) : t \in {50, 80}, h \in {"2", "abc"}}
    \cup {CaptureAbortedLine(20)}

InitCapture == InitParser({Config(30, 5, 300)})

FeedCapture ==
    /\ Len(lines) < MaxCaptureLines
    /\ \E l \in CaptureLines : ProcessLine(l)

NextCapture == FeedCapture

SpecCapture == InitCapture /\ [][NextCapture]_vars

IsCaptureLine(i) ==
    LineCmd(lines[i]) \in {"CaptureStarting", "CaptureComplete",
                           "CaptureAborted"}

\* C3: a CaptureStarting line at t0 followed by a CaptureComplete line at t1
\* with no other capture line between them gives a capture_complete event of
\* duration t1 - t0, for every t0 >= 0.
C3_PairedDuration ==
    \A i, k \in 1..Len(lines) :
        ( /\ i < k
          /\ LineCmd(lines[i]) = "CaptureStarting"
          /\ LineCmd(lines[k]) = "CaptureComplete"
          /\ \A j \in (i + 1)..(k - 1) : ~IsCaptureLine(j) )
        => \A e \in 1..Len(events[k]) :
              events[k][e].type = "capture_complete"
                => events[k][e].duration
                     = LineTime(lines[k]) - LineTime(lines[i])

\* No capture start is pending when line k arrives, read off the lines:
\* every CaptureStarting line before k is followed, before k, by a
\* CaptureComplete or CaptureAborted line
NoPendingStart(k) ==
    \A i \in 1..(k - 1) :
        LineCmd(lines[i]) = "CaptureStarting" =>
            \E j \in (i + 1)..(k - 1) :
                LineCmd(lines[j]) \in {"CaptureComplete", "CaptureAborted"}

DurationIsExposure(k) ==
    \A e \in 1..Len(events[k]) :
        events[k][e].type = "capture_complete"
            => events[k][e].duration = NumTable[LineArg(lines[k])]

\* C16: a CaptureStarting line emits nothing; a CaptureComplete or
\* CaptureAborted line clears the pending capture start; a CaptureComplete
\* line with no pending start reports its own exposure as duration.
C16_PendingStartConsumed ==
    /\ \A i \in 1..Len(lines) :
         LineCmd(lines[i]) = "CaptureStarting" => events[i] = <<>>
    /\ \A k \in 1..Len(lines) :
         (LineCmd(lines[k]) = "CaptureComplete" /\ NoPendingStart(k))
            => DurationIsExposure(k)
    /\ (lines # <<>> /\ LineCmd(lines[Len(lines)])
                            \in {"CaptureComplete", "CaptureAborted"})
         => IsNone(parser.capture_started_time)

\* C18: a CaptureComplete line with a numeric time offset and six fields
\* yields its capture_complete event even when its HFR field is not a
\* number (the event then carries no HFR), and carries the HFR when it is.
C18_MalformedFieldKeepsEvent ==
    \A i \in 1..Len(lines) :
        LineCmd(lines[i]) = "CaptureComplete" =>
            /\ Len(events[i]) = 1
            /\ events[i][1].type = "capture_complete"
            /\ events[i][1].time = LineTime(lines[i])
            /\ CanFloat(Split(lines[i], ",")[5])
                 => events[i][1].hfr = Float(Split(lines[i], ",")[5])

(***************************************************************************)
(* SpecAf: AutofocusStarting / AutofocusComplete / AutofocusAborted lines  *)
(***************************************************************************)
AfLines ==
    {Join(<<"AutofocusStarting", ToString(t), "L", "5">>) : t \in {0, 10}}
    \cup {Join(<<"AutofocusComplete", ToString(t), "5", "50">>) : t \in {50, 80}}
    \cup {Join(<<"AutofocusAborted", ToString(t), "5", "50">>) : t \in {50, 80}}

InitAf == InitParser({Config(30, 5, 300)})

FeedAf ==
    /\ Len(lines) < MaxAfLines
    /\ \E l \in AfLines : ProcessLine(l)

NextAf == FeedAf

SpecAf == InitAf /\ [][NextAf]_vars

\* The duration line i must report, read off the lines: its time minus the
\* time of the AutofocusStarting line just before it, 0 if the line before
\* is not an AutofocusStarting line
AfDuration(i) ==
    IF i > 1 /\ LineCmd(lines[i - 1]) = "AutofocusStarting"
    THEN LineTime(lines[i]) - LineTime(lines[i - 1])
    ELSE 0

\* C17: an AutofocusComplete line yields one autofocus_complete event and
\* an AutofocusAborted line one autofocus_aborted event, of duration t1 - t0
\* with a pending AutofocusStarting at t0 and of duration 0 without one; in
\* all cases the pending autofocus start is cleared.
C17_AfDurations ==
    /\ \A i \in 1..Len(lines) :
         LET type == IF LineCmd(lines[i]) = "AutofocusComplete"
                     THEN "autofocus_complete" ELSE "autofocus_aborted"
         IN  LineCmd(lines[i]) # "AutofocusStarting" =>
                /\ Len(events[i]) = 1
                /\ events[i][1].type = type
                /\ events[i][1].duration = AfDuration(i)
    /\ (lines # <<>> /\ LineCmd(lines[Len(lines)]) # "AutofocusStarting")
         => IsNone(parser.af_started_time)

(***************************************************************************)
(* SpecNoise: well-formed lines mixed with lines the decoder must ignore   *)
(***************************************************************************)
GoodLines ==
    { GuideLine(10, "Guiding"), GuideLine(50, "Aborted"),
      GuideLine(95, "Aborted"), CaptureStartingLine(10, "60"),
      CaptureCompleteLine(50, "2"),
      Join(<<"SchedulerJobStart", "5", "M31">>) }

NoiseLines ==
    { <<>>, <<"#", "KStars version">>,
      <<" ", "#", ",", "10", ",", "Guiding">>,
      <<"GuideState">>,
      Join(<<"GuideState", "abc", "Guiding">>),
      Join(<<"CaptureStarting", "", "60", "L">>) }

InitNoise == InitParser({Config(30, 5, 300)})

FeedNoise ==
    /\ Len(lines) < MaxNoiseLines
    /\ \E l \in GoodLines \cup NoiseLines : ProcessLine(l)

NextNoise == FeedNoise

SpecNoise == InitNoise /\ [][NextNoise]_vars

\* The lines the claim is about, read off the text of the line: blank,
\* comment, fewer than two fields, or a time offset that is not a number
\* (AnalyzeStartTime carries a date, not a time offset)
IsIgnorable(l) ==
    LET t == Strip(l)
        fs == Split(t, ",")
    IN  \/ t = <<>>
        \/ t[1] = "#"
        \/ Len(fs) < 2
        \/ /\ fs[1] # <<"AnalyzeStartTime">>
           /\ ~(Len(Strip(fs[2])) = 1 /\ Strip(fs[2])[1] \in NumStrs)

RECURSIVE Flatten(_)
Flatten(ss) == IF ss = <<>> THEN <<>> ELSE Head(ss) \o Flatten(Tail(ss))

KeptLines == SelectSeq(lines, LAMBDA l : ~IsIgnorable(l))

\* C8: an ignorable line yields no event and changes no parser field, and
\* the events and the final parser state of a line list equal those of the
\* list with its ignorable lines removed.
C8_IgnorableLinesInert ==
    /\ [][ \A l \in GoodLines \cup NoiseLines :
             (lines' = Append(lines, l) /\ IsIgnorable(l))
                => (parser' = parser /\ events' = Append(events, <<>>)) ]_vars
    /\ [] ( /\ process_lines(config, reset, KeptLines).ev = Flatten(events)
            /\ process_lines(config, reset, KeptLines).p = parser )

\* Ignorable lines stand between lines that emit events
C8_Witness ==
    \E i, j, k \in 1..Len(lines) :
        /\ i < j /\ j < k
        /\ events[i] # <<>> /\ events[k] # <<>>
        /\ IsIgnorable(lines[j])
        /\ parser # reset

(***************************************************************************)
(* SpecTail: a writer appends text to the watched file, piece by piece,    *)
(* while the watcher reads it                                              *)
(***************************************************************************)
TailPieces == {"a", " ", "\n"}
TailFile == "ekos-1.analyze"

InitTail ==
    /\ config = Config(30, 5, 300)
    /\ parser = reset
    /\ lines = <<>>
    /\ events = <<>>
    /\ files = [f \in {TailFile} |-> <<>>]
    /\ mtime_order = <<TailFile>>
    /\ watcher = switch_to_file(files, NewWatcher, TailFile, TRUE)
    /\ returned = <<>>
    /\ read_errors = 0
    /\ NoMonitor
    /\ NoBatch

\* The acquisition tool appends text to the file
WritePiece ==
    /\ Len(files[TailFile]) < MaxFileLen
    /\ \E b \in TailPieces :
          files' = [files EXCEPT ![TailFile] = Append(@, b)]
    /\ UNCHANGED <<mtime_order, watcher, returned, read_errors, parserVars, monitorVars,
                   batchVars>>

ReadNewLines ==
    LET r == read_new_lines(files, watcher) IN
    /\ Len(returned) < MaxReads
    /\ watcher' = r.w
    /\ returned' = Append(returned, r.out)
    /\ UNCHANGED <<files, mtime_order, read_errors, parserVars, monitorVars,
                   batchVars>>

\* A call of read_new_lines() during which reading the file fails
ReadFails ==
    LET r == read_failure(files, watcher) IN
    /\ Len(returned) < MaxReads
    /\ watcher' = r.w
    /\ returned' = Append(returned, r.out)
    /\ read_errors' = read_errors + 1
    /\ UNCHANGED <<files, mtime_order, parserVars, monitorVars, batchVars>>

NextTail == WritePiece \/ ReadNewLines \/ ReadFails

SpecTail == InitTail /\ [][NextTail]_vars

\* The complete (newline-terminated) non-blank lines of a text
CompleteLines(text) ==
    LET ps == Split(text, "\n") IN
    SelectSeq(SubSeq(ps, 1, Len(ps) - 1), LAMBDA l : Strip(l) # <<>>)

\* C4: once the watcher has read up to the end of a file that ends with a
\* line terminator, the concatenation of the lists returned is the sequence
\* of complete non-blank lines of the file: no line is returned in
\* fragments.
C4_WholeLinesOnly ==
    LET text == files[TailFile] IN
    ( /\ watcher.file_position = Len(text)
      /\ (text = <<>> \/ text[Len(text)] = "\n") )
    => Flatten(returned) = CompleteLines(text)

Last(q) == q[Len(q)]

\* The pieces of a text that are neither blanks nor line terminators
Letters(text) == SelectSeq(text, LAMBDA b : b \notin {" ", "\n"})

\* The letters of all the lines returned so far, in the order returned
Delivered == Letters(Flatten(Flatten(returned)))

\* C33: a read that fails returns no lines and leaves the offset where it
\* was, and the letters returned so far are at all times the letters of the
\* file before the offset: what a failed read did not deliver is still
\* ahead of the offset and comes with a later read, nothing is lost.
C33_ReadErrorLosesNothing ==
    /\ [] ( Delivered
            = Letters(SubSeq(files[TailFile], 1, watcher.file_position)) )
    /\ [][ read_errors' > read_errors
           => /\ watcher' = watcher
              /\ Last(returned') = <<>> ]_vars

\* A read failed with text waiting, and the next read returned the text
C33_Witness ==
    /\ read_errors = 1
    /\ Len(returned) = 2
    /\ returned[1] = <<>>
    /\ returned[2] # <<>>
    /\ watcher.file_position = Len(files[TailFile])

\* C39: on one file the offset never decreases, whatever a call returns,
\* and each call returns the letters of the file between the offset it
\* found and the offset it left: no part of the file is returned twice.
C39_OffsetMonotone ==
    [][ /\ watcher'.current_file = watcher.current_file
        /\ watcher'.file_position >= watcher.file_position
        /\ returned' # returned
           => Letters(Flatten(Last(returned')))
                = Letters(SubSeq(files[TailFile], watcher.file_position + 1,
                                 watcher'.file_position)) ]_vars

\* Three calls on a full file: one failed, one returned text, the offset is
\* at the end
C39_Witness ==
    /\ Len(returned) = MaxReads
    /\ read_errors = 1
    /\ \E i \in 1..Len(returned) : returned[i] # <<>>
    /\ Len(files[TailFile]) = MaxFileLen
    /\ watcher.file_position = MaxFileLen

(***************************************************************************)
(* SpecMonitor: RealtimeMonitor.run() against a directory in which the     *)
(* acquisition tool creates files and appends lines, under a wall clock    *)
(***************************************************************************)
StartLine == Join(<<"AnalyzeStartTime", "2025-01-01 20:00:00", "UTC">>)
JobLine == Join(<<"SchedulerJobStart", "5", "M31">>)

MonitorLines == {StartLine, JobLine, CaptureCompleteLine(50, "2")}

OldFile == "ekos-1.analyze"
NewFile == "ekos-2.analyze"

\* Minutes the clock may advance in one step; the timeout is 30 minutes
TickSteps == {30, 31}
Timeouts == {30}

InitMonitor ==
    /\ config = Config(30, 5, 300)
    /\ parser = reset
    /\ lines = <<>>
    /\ events = <<>>
    /\ \/ files = <<>> /\ mtime_order = <<>>
       \/ /\ files \in [{OldFile} -> {<<>>, StartLine \o <<"\n">>}]
          /\ mtime_order = <<OldFile>>
    /\ watcher = NewWatcher
    /\ returned = <<>>
    /\ read_errors = 0
    /\ monitor \in {NewMonitor(t) : t \in Timeouts}
    /\ pc = "start"
    /\ new_file = None
    /\ now = 0
    /\ sent = <<>>
    /\ NoBatch

\* Number of lines in the directory
RECURSIVE CountLines(_, _)
CountLines(fs, names) ==
    IF names = {} THEN 0
    ELSE LET f == CHOOSE g \in names : TRUE IN
         Len(LinesOf(fs[f])) + CountLines(fs, names \ {f})

LinesWritten == CountLines(files, DOMAIN files)

\* --- the environment ---
\* The loop spends its time in time.sleep(): the directory and the clock
\* change while it sleeps.  stop() runs in the signal handler, at any point
\* of an iteration; the flag it sets is read at line 237 only.

\* The acquisition tool starts a new file
CreateFile ==
    /\ pc = "sleep"
    /\ Len(mtime_order) < 2
    /\ LET f == IF mtime_order = <<>> THEN OldFile ELSE NewFile IN
       /\ files' = [g \in DOMAIN files \cup {f} |->
                       IF g = f THEN <<>> ELSE files[g]]
       /\ mtime_order' = Append(mtime_order, f)
    /\ UNCHANGED <<watcher, returned, read_errors, parserVars, monitorVars, batchVars>>

\* The acquisition tool appends a line to the file it is writing
AppendLine ==
    /\ pc = "sleep"
    /\ mtime_order # <<>>
    /\ LinesWritten < MaxWrites
    /\ \E l \in MonitorLines :
        LET f == mtime_order[Len(mtime_order)] IN
        files' = [files EXCEPT ![f] = @ \o l \o <<"\n">>]
    /\ UNCHANGED <<mtime_order, watcher, returned, read_errors, parserVars, monitorVars,
                   batchVars>>

\* Wall-clock time passes
Tick ==
    /\ pc = "sleep"
    /\ \E d \in TickSteps : now + d <= MaxNow /\ now' = now + d
    /\ UNCHANGED <<parserVars, watcherVars, batchVars, monitor, pc,
                   new_file, sent>>

\* The points of run() inside the loop of lines 237-265
LoopPoints ==
    {"loop", "check", "end_old", "switch", "reset", "read", "timeout", "sleep"}

\* stop(), called from the signal handler
Stop ==
    /\ pc \in LoopPoints
    /\ monitor.running
    /\ monitor' = [monitor EXCEPT !.running = FALSE]
    /\ UNCHANGED <<parserVars, watcherVars, batchVars, pc, new_file, now,
                   sent>>

\* --- run() ---

\* Lines 210-232: attach to the latest file at its end, startup message
RunStart ==
    /\ pc = "start"
    /\ monitor' = [monitor EXCEPT !.running = TRUE]
    /\ LET latest == find_latest_file(mtime_order) IN
       watcher' = IF IsNone(latest) THEN watcher
                  ELSE switch_to_file(files, watcher, Get(latest), FALSE)
    /\ sent' = Append(sent, Call("send_raw", "startup", now))
    /\ pc' = "loop"
    /\ UNCHANGED <<files, mtime_order, returned, read_errors, parserVars, batchVars,
                   new_file, now>>

\* Line 237: while self._running
RunLoop ==
    /\ pc = "loop"
    /\ pc' = IF monitor.running THEN "check" ELSE "shutdown"
    /\ UNCHANGED <<parserVars, watcherVars, batchVars, monitor, new_file,
                   now, sent>>

\* Lines 240-241: new_file = check_for_new_file()
RunCheck ==
    /\ pc = "check"
    /\ new_file' = check_for_new_file(mtime_order, watcher)
    /\ pc' = IF IsNone(new_file') THEN "read" ELSE "end_old"
    /\ UNCHANGED <<parserVars, watcherVars, batchVars, monitor, now, sent>>

\* Lines 243-244: force-end the active session
RunEndOld ==
    /\ pc = "end_old"
    /\ LET r == _end_session(monitor, sent, now) IN
       monitor' = r.m /\ sent' = r.sent
    /\ pc' = "switch"
    /\ UNCHANGED <<parserVars, watcherVars, batchVars, new_file, now>>

\* Line 245: switch_to_file(new_file, from_beginning=True)
RunSwitch ==
    /\ pc = "switch"
    /\ watcher' = switch_to_file(files, watcher, Get(new_file), TRUE)
    /\ pc' = "reset"
    /\ UNCHANGED <<files, mtime_order, returned, read_errors, parserVars, batchVars,
                   monitor, new_file, now, sent>>

\* Line 246: parser.reset()
RunReset ==
    /\ pc = "reset"
    /\ parser' = reset
    /\ pc' = "read"
    /\ UNCHANGED <<config, lines, events, watcherVars, batchVars, monitor,
                   new_file, now, sent>>

\* Lines 249-253: read the new lines, decode them, handle the events
RunRead ==
    /\ pc = "read"
    /\ \E failed \in BOOLEAN :
          /\ failed => /\ read_errors < MaxReadErrors
                       /\ ~IsNone(watcher.current_file)
                       /\ Get(watcher.current_file) \in DOMAIN files
          /\ LET rd == IF failed THEN read_failure(files, watcher)
                       ELSE read_new_lines(files, watcher)
                 dec == process_lines(config, parser, rd.out)
                 pe == _process_events(monitor, sent, now, dec.ev)
             IN  /\ watcher' = rd.w
                 /\ parser' = dec.p
                 /\ monitor' = pe.m
                 /\ sent' = pe.sent
          /\ read_errors' = IF failed THEN read_errors + 1 ELSE read_errors
    /\ pc' = "timeout"
    /\ UNCHANGED <<config, lines, events, files, mtime_order, returned,
                   batchVars, new_file, now>>

\* Line 256: _check_session_timeout()
RunTimeout ==
    /\ pc = "timeout"
    /\ LET r == _check_session_timeout(monitor, sent, now) IN
       monitor' = r.m /\ sent' = r.sent
    /\ pc' = "sleep"
    /\ UNCHANGED <<parserVars, watcherVars, batchVars, new_file, now>>

\* Line 258: time.sleep(poll_interval)
RunSleep ==
    /\ pc = "sleep"
    /\ pc' = "loop"
    /\ UNCHANGED <<parserVars, watcherVars, batchVars, monitor, new_file,
                   now, sent>>

RunShutdown_unflushed ==
    /\ pc = "shutdown"
    /\ sent' = Append(sent, Call("send_raw", "shutdown", now))
    /\ pc' = "stopped"
    /\ UNCHANGED <<parserVars, watcherVars, batchVars, monitor, new_file, now>>
\* Lines 267-277: final flush and shutdown message
RunShutdown ==
    /\ pc = "shutdown"
    /\ LET r == _end_session(monitor, sent, now) IN
       /\ monitor' = r.m
       /\ sent' = Append(r.sent, Call("send_raw", "shutdown", now))
    /\ pc' = "stopped"
    /\ UNCHANGED <<parserVars, watcherVars, batchVars, new_file, now>>

NextMonitor ==
    \/ CreateFile \/ AppendLine \/ Tick \/ Stop
    \/ RunStart \/ RunLoop \/ RunCheck \/ RunEndOld \/ RunSwitch \/ RunReset
    \/ RunRead \/ RunTimeout \/ RunSleep \/ RunShutdown

SpecMonitor == InitMonitor /\ [][NextMonitor]_vars


\* C5: when the latest file differs from the watched one, the iteration
\* first force-ends the active session and sends its summary, then switches
\* the watcher to the new file at offset 0, then resets the parser to the
\* state of a fresh parser; the lines of the new file are decoded only after
\* that, by a parser that carries nothing over from the old file.
C5_SwitchOrder ==
    /\ [] ( /\ pc = "switch" => ~monitor.session_active
            /\ pc = "reset" =>
                  /\ ~monitor.session_active
                  /\ watcher.current_file = new_file
                  /\ watcher.file_position = 0
            /\ (pc = "read" /\ ~IsNone(new_file)) =>
                  /\ ~monitor.session_active
                  /\ watcher.current_file = new_file
                  /\ watcher.file_position = 0
                  /\ parser = reset )
    /\ [][ /\ ( pc = "check"
                /\ pc' # pc
                /\ mtime_order # <<>>
                /\ Some(Last(mtime_order)) # watcher.current_file )
              => pc' = "end_old"
           /\ (pc = "end_old" /\ pc' # pc /\ monitor.session_active)
              => sent' = Append(sent, Call("notify_session_end",
                                           monitor.session_stats, now))
           /\ (pc = "end_old" /\ ~monitor.session_active) => sent' = sent
           /\ (pc = "read" /\ IsNone(new_file))
              => watcher'.current_file = watcher.current_file ]_vars

\* The session of the old file was force-ended and the lines of the new
\* file are about to be decoded
C5_Witness ==
    /\ pc = "read"
    /\ ~IsNone(new_file)
    /\ new_file = Some(NewFile)
    /\ files[NewFile] # <<>>
    /\ sent # <<>>
    /\ Last(sent).call = "notify_session_end"
    /\ Last(sent).at = now

\* C34: at startup the monitor attaches to the latest existing file at its
\* current size, and to a file detected later at offset 0; the offset is
\* never beyond the end of the watched file, and a read decodes the content
\* after the offset only.
C34_SwitchOffsets ==
    /\ [] ( ( ~IsNone(watcher.current_file)
              /\ Get(watcher.current_file) \in DOMAIN files )
            => watcher.file_position
                 <= Len(files[Get(watcher.current_file)]) )
    /\ [][ /\ (pc = "start" /\ pc' # pc /\ mtime_order # <<>>)
              => watcher' = [ current_file  |-> Some(Last(mtime_order)),
                              file_position |->
                                  Len(files[Last(mtime_order)]) ]
           /\ (pc = "start" /\ pc' # pc /\ mtime_order = <<>>)
              => watcher' = watcher
           /\ (pc = "switch" /\ pc' # pc)
              => watcher' = [ current_file  |-> new_file,
                              file_position |-> 0 ]
           /\ ( pc = "read" /\ pc' # pc /\ read_errors' = read_errors
                /\ ~IsNone(watcher.current_file) )
              => LET content == files[Get(watcher.current_file)]
                     appended == SubSeq(content, watcher.file_position + 1,
                                        Len(content))
                 IN  /\ parser' = process_lines(config, parser,
                                                LinesOf(appended)).p
                     /\ watcher'.file_position = Len(content) ]_vars

\* The monitor attached to a file that held a line at startup, at the end of
\* that line, and is now at the start of a later file that holds a line
C34_Witness ==
    /\ pc = "reset"
    /\ watcher = [current_file |-> Some(NewFile), file_position |-> 0]
    /\ files[NewFile] # <<>>
    /\ files[OldFile] = StartLine \o <<"\n">>
    /\ Len(sent) = 1

\* Notifier calls made for decoded events
EventCalls(log) ==
    SelectSeq(log, LAMBDA c : c.call \notin {"send_raw", "notify_session_end"})

\* The calls since the last session start (that call included)
RECURSIVE SinceStart(_)
SinceStart(log) ==
    IF log = <<>> THEN <<>>
    ELSE IF Last(log).call = "notify_session_start" THEN <<Last(log)>>
    ELSE Append(SinceStart(SubSeq(log, 1, Len(log) - 1)), Last(log))

CountCalls(log, name) == Len(SelectSeq(log, LAMBDA c : c.call = name))

RECURSIVE JobNames(_)
JobNames(log) ==
    IF log = <<>> THEN <<>>
    ELSE LET before == JobNames(SubSeq(log, 1, Len(log) - 1))
             c == Last(log)
         IN  IF c.call = "notify_scheduler_job_start"
                /\ \A i \in 1..Len(before) : before[i] # c.arg.job_name
             THEN Append(before, c.arg.job_name)
             ELSE before

\* The counters a summary must carry, counted from what the notifier was
\* told since the session started
Accumulated(log) ==
    LET s == SinceStart(log) IN
    [ captures_complete |-> CountCalls(s, "notify_capture_complete"),
      captures_aborted  |-> CountCalls(s, "notify_capture_aborted"),
      autofocus_success |-> CountCalls(s, "notify_autofocus_complete"),
      autofocus_failed  |-> CountCalls(s, "notify_autofocus_aborted"),
      scheduler_jobs    |-> JobNames(s),
      session_start     |-> Some(s[1].arg[1]),
      align_success     |-> CountCalls(s, "notify_align_complete"),
      align_failed      |-> CountCalls(s, "notify_align_failed") ]

CallsOf(log, name) == {i \in 1..Len(log) : log[i].call = name}

\* The four counters of a summary
Counters(stats) ==
    [ k \in {"captures_complete", "captures_aborted", "autofocus_success",
             "autofocus_failed"} |-> stats[k] ]

C22_StopFlushesOnce ==
    [][ /\ (~monitor.running /\ pc \in LoopPoints) => ~monitor'.running
        /\ (~monitor.running /\ pc = "loop") => pc' = "shutdown"
        /\ (~monitor.running /\ pc = "sleep") => pc' \in {"sleep", "loop"}
        /\ pc = "shutdown" =>
              /\ pc' = "stopped"
              /\ ~monitor'.session_active
              /\ sent' = IF monitor.session_active
                         THEN sent \o << Call("notify_session_end",
                                              Accumulated(sent), now),
                                         Call("send_raw", "shutdown", now) >>
                         ELSE Append(sent, Call("send_raw", "shutdown", now))
        /\ pc # "stopped" ]_vars

\* stop() came while a session was active: its summary, then the shutdown
\* message, were sent on exit
C22_Witness ==
    /\ pc = "stopped"
    /\ now = 0
    /\ Len(mtime_order) = 1
    /\ Len(sent) >= 3
    /\ sent[Len(sent) - 1].call = "notify_session_end"
    /\ sent[Len(sent) - 1].arg.captures_complete = 1
    /\ Last(sent) = Call("send_raw", "shutdown", now)

\* C29: the decision of the timeout check is the same whatever the wall-
\* clock delay between the reading of the last line and the check: it
\* depends on the lines read, not on when they were read.
C29_TimeoutByEventTime ==
    [][ ( /\ pc = "timeout"
          /\ monitor.session_active
          /\ ~IsNone(monitor.last_event_time) )
        => \A delay \in 0..MaxNow :
               _check_session_timeout(
                   monitor, sent,
                   Get(monitor.last_event_time) + delay).m.session_active
               = monitor'.session_active ]_vars

(***************************************************************************)
(* aggregate_session_data: the loop over the files, then the report        *)
(***************************************************************************)

\* session_data = self.parse_analyze_file(filepath); the file is given by
\* its lines, as readlines() returns them
ParseFile ==
    /\ output = None
    /\ session_data = None
    /\ next_file <= Len(input)
    /\ session_data' = Some(parse_analyze_file(input[next_file].filepath,
                                               input[next_file].lines))
    /\ UNCHANGED <<input, next_file, all_sessions, output, parses>>
    /\ UNCHANGED <<parserVars, watcherVars, monitorVars>>

\* The backfill, and the session kept if it has captures or autofocus runs
Associate ==
    /\ session_data # None
    /\ LET sd == _associate_autofocus_with_captures(Get(session_data)) IN
       all_sessions' = IF sd.captures # <<>> \/ sd.autofocus_sessions # <<>>
                       THEN Append(all_sessions, sd)
                       ELSE all_sessions
    /\ session_data' = None
    /\ next_file' = next_file + 1
    /\ UNCHANGED <<input, output, parses>>
    /\ UNCHANGED <<parserVars, watcherVars, monitorVars>>

\* The rest of aggregate_session_data, once every file is parsed
Aggregate ==
    /\ output = None
    /\ session_data = None
    /\ next_file > Len(input)
    /\ output' = Some(Report(all_sessions))
    /\ UNCHANGED <<input, next_file, session_data, all_sessions, parses>>
    /\ UNCHANGED <<parserVars, watcherVars, monitorVars>>

NextAggregate == ParseFile \/ Associate \/ Aggregate

NoParser ==
    /\ config = Config(30, 5, 300)
    /\ parser = reset
    /\ lines = <<>>
    /\ events = <<>>

LinesUpTo(alphabet, n) == UNION {[1..k -> alphabet] : k \in 0..n}

File1 == <<"/", "logs", "/", "ekos-", "2025-01-01", ".analyze">>
File2 == <<"/", "logs", "/", "session", ".analyze">>

InitAggregate(inputs) ==
    /\ input \in inputs
    /\ next_file = 1
    /\ session_data = None
    /\ all_sessions = <<>>
    /\ output = None
    /\ parses = <<>>
    /\ NoParser
    /\ NoWatcher
    /\ NoMonitor

\* The input file a session was parsed from
FileOf(session) ==
    CHOOSE k \in 1..Len(input) : input[k].filepath = session.filepath

(***************************************************************************)
(* SpecBatch: one file of well-formed and malformed lines                  *)
(***************************************************************************)
BatchCaptureLine(t, exposure, filter, hfr) ==
    Join(<<"CaptureComplete", ToString(t), exposure, filter, hfr, "a.fits">>)

BatchLines ==
    { Join(<<"Temperature", "10", "5">>),
      Join(<<"Temperature", "20", "abc">>),
      Join(<<"Temperature", "30">>),
      BatchCaptureLine(50, "60", "L", "2"),
      BatchCaptureLine(50, "abc", "L", "2"),
      Join(<<"MountCoords", "10", "1", "2", "abc", "4", "5", "6">>),
      Join(<<"AutofocusStarting", "10", "L", "5", "abc">>),
      Join(<<"GuideStats", "10", "1", "1", "0", "0", "abc">>),
      Join(<<"GuideState", "abc", "Guiding">>),
      Join(<<"CaptureAborted", "20", "abc">>) }

InitBatch ==
    InitAggregate({ << [filepath |-> File1, lines |-> ls] >> :
                        ls \in LinesUpTo(BatchLines, MaxBatchLines) })

SpecBatch == InitBatch /\ [][NextAggregate]_vars

\* What the file decodes to when a line that fails a check is passed over
\* and the lines after it are still decoded
RECURSIVE DecodeSkipping(_, _)
DecodeSkipping(sd, ls) ==
    IF ls = <<>> THEN sd
    ELSE DecodeSkipping(BatchLine(sd, Head(ls)).sd, Tail(ls))

\* C7: a line that fails a field-count or numeric-parse check contributes
\* nothing and does not stop the parse: the session returned holds what
\* every well-formed line of the file decodes to, those after it included.
C7_BadLineSkipped ==
    session_data # None =>
        Get(session_data) = DecodeSkipping(NewSession(input[next_file].filepath),
                                           input[next_file].lines)

(***************************************************************************)
(* SpecBackfill: one file of autofocus runs and completed captures         *)
(***************************************************************************)
AutofocusLine(t, filter, hfr, outlier) ==
    JoinParts(<< <<"AutofocusComplete">>, <<ToString(t)>>, <<"5">>, <<"50">>,
                 <<"Done">>, <<filter>>,
                 <<"100", "|", hfr, "|", hfr, "|", outlier>> >>)

BackfillLines ==
    { AutofocusLine(10, "L", "2", "0"), AutofocusLine(50, "L", "3", "0"),
      AutofocusLine(50, "L", "3", "1"), AutofocusLine(1, "R", "4", "0"),
      BatchCaptureLine(10, "60", "L", "0"),
      BatchCaptureLine(30, "60", "L", "0"),
      BatchCaptureLine(30, "60", "L", "5"),
      BatchCaptureLine(60, "60", "L", "0"),
      BatchCaptureLine(7200, "60", "R", "0"),
      BatchCaptureLine(7201, "60", "R", "0") }

InitBackfill ==
    InitAggregate({ << [filepath |-> File1, lines |-> ls] >> :
                        ls \in LinesUpTo(BackfillLines, MaxBackfillLines) })

SpecBackfill == InitBackfill /\ [][NextAggregate]_vars

\* The session as parsed, before the backfill
Before(session) ==
    parse_analyze_file(input[FileOf(session)].filepath,
                       input[FileOf(session)].lines)

CompletedAutofocus(sd) ==
    { a \in {sd.autofocus_sessions[i] : i \in 1..Len(sd.autofocus_sessions)} :
        a.event = "complete" }

\* The end of the window of autofocus a, read off the claim
WindowEnd(sd, a) ==
    LET later == { n.timestamp : n \in { m \in CompletedAutofocus(sd) :
                       m.filter = a.filter /\ m.timestamp > a.timestamp } }
    IN  IF later = {} THEN a.timestamp + 7200
        ELSE CHOOSE t \in later : \A u \in later : t <= u

InWindow(sd, a, capture) ==
    /\ a.filter = capture.filter
    /\ a.timestamp < capture.timestamp
    /\ capture.timestamp < WindowEnd(sd, a)

\* C9: the backfill leaves a completed capture with a non-null hfr as it
\* was, hfr and fwhm; it writes the hfr of a capture only if it was null,
\* and then the best_hfr of a completed autofocus of the same filter whose
\* window (after the autofocus, before the next completed autofocus of the
\* filter or else 7200 s later, both strict) holds the capture's timestamp.
C9_BackfillOnlyNull ==
    \A k \in 1..Len(all_sessions) :
        LET after == all_sessions[k].captures
            before == Before(all_sessions[k])
        IN  /\ Len(after) = Len(before.captures)
            /\ \A i \in 1..Len(after) :
                 LET b == before.captures[i]
                     c == after[i]
                 IN  IF b.event # "complete" THEN c = b
                     ELSE IF b.hfr # None
                     THEN c.hfr = b.hfr /\ c.fwhm = b.fwhm
                     ELSE c.hfr # None =>
                            \E a \in CompletedAutofocus(before) :
                                /\ a.best_hfr = c.hfr
                                /\ InWindow(before, a, b)

\* One capture without hfr was filled, and one with its own hfr, inside the
\* window of an autofocus with another best_hfr, kept it
C9_Witness ==
    /\ Len(all_sessions) = 1
    /\ LET after == all_sessions[1].captures
           before == Before(all_sessions[1])
       IN  /\ \E i \in 1..Len(after) :
                 before.captures[i].hfr = None /\ after[i].hfr # None
           /\ \E i \in 1..Len(after) :
                 /\ before.captures[i].hfr # None
                 /\ \E a \in CompletedAutofocus(before) :
                        /\ a.best_hfr # None
                        /\ a.best_hfr # before.captures[i].hfr
                        /\ InWindow(before, a, before.captures[i])

(***************************************************************************)
(* SpecSegment: one or two files of completed captures                     *)
(***************************************************************************)
SegmentLines ==
    { BatchCaptureLine(t, "60", "L", "2") : t \in {0, 1800, 1801, 3601} }
    \cup { BatchCaptureLine(0, "60", "R", "2"),
           Join(<<"SchedulerJobStart", "0", "M31">>) }

InitSegment ==
    InitAggregate(
        { << [filepath |-> File1, lines |-> ls] >> :
              ls \in LinesUpTo(SegmentLines, MaxSegmentLines) }
        \cup
        { << [filepath |-> File1, lines |-> ls],
             [filepath |-> File2, lines |-> <<l>>] >> :
              ls \in LinesUpTo(SegmentLines, MaxSegmentLines),
              l \in SegmentLines })

SpecSegment == InitSegment /\ [][NextAggregate]_vars

\* C10: in the filter_analysis of the report, two consecutive captures of
\* one sub-session are at most 1800 s apart, and the last capture of a
\* sub-session and the first of the next are more than 1800 s apart.
C10_SubSessionsMaximal ==
    (output # None /\ Get(output) # <<>>) =>
        \A f \in DOMAIN Get(output).filter_analysis :
            LET subs == Get(output).filter_analysis[f].sub_sessions IN
            /\ \A n \in 1..Len(subs) :
                 /\ subs[n].captures # <<>>
                 /\ \A i \in 1..(Len(subs[n].captures) - 1) :
                      LET gap == subs[n].captures[i + 1].timestamp
                                 - subs[n].captures[i].timestamp
                      IN  0 <= gap /\ gap <= 1800
            /\ \A n \in 1..(Len(subs) - 1) :
                 subs[n + 1].captures[1].timestamp
                 - subs[n].captures[Len(subs[n].captures)].timestamp > 1800

\* A filter with two sub-sessions, the first holding two captures exactly
\* 1800 s apart
C10_Witness ==
    /\ output # None
    /\ Get(output) # <<>>
    /\ \E f \in DOMAIN Get(output).filter_analysis :
         LET subs == Get(output).filter_analysis[f].sub_sessions IN
         /\ Len(subs) = 2
         /\ Len(subs[1].captures) = 2
         /\ subs[1].captures[2].timestamp - subs[1].captures[1].timestamp
            = 1800

(***************************************************************************)
(* SpecObjects: scheduler jobs and captures, in one or two files           *)
(***************************************************************************)
JobLine_(t, name) ==
    JoinParts(<< <<"SchedulerJobStart">>, <<ToString(t)>>, name >>)

ObjectLines ==
    { JobLine_(0, <<"M31">>), JobLine_(500, <<"M33">>), JobLine_(50, <<>>),
      BatchCaptureLine(100, "60", "R", "2"),
      BatchCaptureLine(600, "60", "R", "2") }

InitObjects ==
    InitAggregate(
        { << [filepath |-> File1, lines |-> ls] >> :
              ls \in LinesUpTo(ObjectLines, MaxObjectLines) }
        \cup
        { << [filepath |-> File1, lines |-> ls],
             [filepath |-> File2,
              lines |-> << BatchCaptureLine(100, "60", "R", "2") >>] >> :
              ls \in LinesUpTo(ObjectLines, MaxObjectLines) })

SpecObjects == InitObjects /\ [][NextAggregate]_vars

\* The fallback name, read off the file name
FallbackName(filepath) ==
    LET hits == {i \in 1..(Len(filepath) - 1) :
                    /\ filepath[i] = "ekos-"
                    /\ filepath[i + 1] \in FileDates
                    /\ (i = 1 \/ filepath[i - 1] = "/")
                    /\ \A j \in i..Len(filepath) : filepath[j] # "/"}
    IN  IF hits = {} THEN <<"Unknown">>
        ELSE <<"Session_", filepath[(CHOOSE i \in hits : TRUE) + 1]>>

\* The job start the claim attributes a capture at time t to, as an index
\* into the session's scheduler jobs (0 if the session has no job start):
\* the latest start at or before t, else the earliest start
AttributedJob(session, t) ==
    LET jobs == session.scheduler_jobs
        starts == {j \in 1..Len(jobs) : jobs[j].event = "start"}
        before == {j \in starts : jobs[j].timestamp <= t}
    IN  IF starts = {} THEN 0
        ELSE IF before # {}
        THEN CHOOSE j \in before : \A h \in before :
                \/ jobs[h].timestamp < jobs[j].timestamp
                \/ (jobs[h].timestamp = jobs[j].timestamp /\ h <= j)
        ELSE CHOOSE j \in starts : \A h \in starts :
                \/ jobs[h].timestamp > jobs[j].timestamp
                \/ (jobs[h].timestamp = jobs[j].timestamp /\ h >= j)

\* The object name as the claim states it
ClaimedName(session, t) ==
    LET j == AttributedJob(session, t) IN
    IF j = 0 THEN FallbackName(session.filepath)
    ELSE session.scheduler_jobs[j].object_name

\* The same, with the fallback name also for a job without a name
ClaimedNameOrFallback(session, t) ==
    IF ClaimedName(session, t) = <<>> THEN FallbackName(session.filepath)
    ELSE ClaimedName(session, t)

SummaryCaptures(report) ==
    Concat([i \in 1..Len(report.capture_summary) |->
               report.capture_summary[i].captures])

\* The captures are grouped as Name(session, timestamp) says: every
\* completed capture of every session is in the group of its name and
\* filter, and the groups hold nothing else
GroupedBy(report, Name(_, _)) ==
    /\ \A k \in 1..Len(report.sessions) :
         \A n \in 1..Len(report.sessions[k].captures) :
            LET c == report.sessions[k].captures[n] IN
            c.event = "complete" =>
               \E i \in 1..Len(report.capture_summary) :
                  /\ report.capture_summary[i].key
                        = <<Name(report.sessions[k], c.timestamp), c.filter>>
                  /\ \E m \in 1..Len(report.capture_summary[i].captures) :
                        report.capture_summary[i].captures[m] = c
    /\ \A i \in 1..Len(report.capture_summary) :
         \A m \in 1..Len(report.capture_summary[i].captures) :
            LET c == report.capture_summary[i].captures[m] IN
            \E k \in 1..Len(report.sessions) :
               /\ \E n \in 1..Len(report.sessions[k].captures) :
                     report.sessions[k].captures[n] = c
               /\ report.capture_summary[i].key
                     = <<Name(report.sessions[k], c.timestamp), c.filter>>
    /\ Len(SummaryCaptures(report)) = report.total_captures

HasReport == output # None /\ Get(output) # <<>>

\* C11 (as stated): the object name of a capture's group is the name of the
\* latest job start of its session at or before the capture, else of the
\* session's earliest job start, else the fallback name of the file.
C11_ObjectPerCapture_stated ==
    HasReport => GroupedBy(Get(output), ClaimedName)

\* C11: the same, where a job start that carries no name also gives the
\* fallback name of the file.
C11_ObjectPerCapture ==
    HasReport => GroupedBy(Get(output), ClaimedNameOrFallback)

\* M31 at 0 and M33 at 500 in one file: the capture at 100 is grouped under
\* M31 and the capture at 600 under M33
C11_Witness ==
    /\ HasReport
    /\ Len(Get(output).sessions) = 1
    /\ \E i, j \in 1..Len(Get(output).capture_summary) :
         LET a == Get(output).capture_summary[i]
             b == Get(output).capture_summary[j]
         IN  /\ a.key = << <<"M31">>, <<"R">> >>
             /\ a.captures[1].timestamp = 100
             /\ b.key = << <<"M33">>, <<"R">> >>
             /\ b.captures[1].timestamp = 600

(***************************************************************************)
(* SpecPermute: two files, aggregated in the order given                   *)
(***************************************************************************)
PermuteLines ==
    { BatchCaptureLine(0, "60", "L", "2"), BatchCaptureLine(0, "30", "L", "2"),
      BatchCaptureLine(100, "60", "L", "2"), JobLine_(0, <<"M31">>) }

InitPermute ==
    InitAggregate(
        { << [filepath |-> File1, lines |-> l1],
             [filepath |-> File2, lines |-> l2] >> :
              l1 \in LinesUpTo(PermuteLines, MaxPermuteLines),
              l2 \in LinesUpTo(PermuteLines, MaxPermuteLines) })

SpecPermute == InitPermute /\ [][NextAggregate]_vars

Reverse(q) == [i \in 1..Len(q) |-> q[Len(q) + 1 - i]]

\* A capture without the file it was traced back to
Untagged(capture) ==
    [k \in DOMAIN capture \ {"source_session"} |-> capture[k]]
UntaggedAll(captures) ==
    [i \in 1..Len(captures) |-> Untagged(captures[i])]

\* The capture grouping of a report: each (object, filter) key with its
\* ordered captures
Grouping(report) ==
    IF report = <<>> THEN {}
    ELSE { [key |-> report.capture_summary[i].key,
            captures |-> UntaggedAll(report.capture_summary[i].captures)] :
              i \in 1..Len(report.capture_summary) }

\* The segmentation of a report: per filter, the ordered sub-sessions with
\* their ordered captures, bounds and exposure time
Segmentation(report) ==
    IF report = <<>> THEN {}
    ELSE { [filter |-> f,
            sub_sessions |->
               [n \in 1..Len(report.filter_analysis[f].sub_sessions) |->
                  LET sub == report.filter_analysis[f].sub_sessions[n] IN
                  [captures        |-> UntaggedAll(sub.captures),
                   start_timestamp |-> sub.start_timestamp,
                   end_timestamp   |-> sub.end_timestamp,
                   exposure_time   |-> sub.exposure_time]]] :
              f \in DOMAIN report.filter_analysis }

\* C12: the report of a list of files has the capture grouping and the
\* sub-session segmentation of the report of the list in any other order.
C12_OrderOfFilesIrrelevant ==
    output # None =>
        LET other == aggregate_session_data(Reverse(input)) IN
        /\ Grouping(Get(output)) = Grouping(other)
        /\ Segmentation(Get(output)) = Segmentation(other)

(***************************************************************************)
(* SpecQuality: guide quality of a list of distances, for every pixel      *)
(* scale and every triple of thresholds                                    *)
(***************************************************************************)
PixelScales == {None, Some(0), Some(0 - 10), Some(10), Some(25)}
Thresholds ==
    [excellent_px : {5, 10, 15}, good_px : {5, 10, 15}, average_px : {5, 10, 15}]

\* Distances in steps of half an arcsecond
QualityDistances == {Rat(n, 2) : n \in 0..MaxHalfArcsec}
DistanceLists ==
    {<<d>> : d \in QualityDistances}
    \cup {<<d, e>> : d \in {Rat(0, 1), Rat(3, 1)}, e \in QualityDistances}

InitQuality ==
    /\ input \in { [self |-> NewAnalyzer(ps, Some(th)), distances |-> ds] :
                       ps \in PixelScales, th \in Thresholds,
                       ds \in DistanceLists }
    /\ next_file = 1
    /\ session_data = None
    /\ all_sessions = <<>>
    /\ output = None
    /\ parses = <<>>
    /\ NoParser
    /\ NoWatcher
    /\ NoMonitor

\* quality = self._calculate_guide_quality_from_distance(distances)
Classify ==
    /\ output = None
    /\ output' = Some(_calculate_guide_quality_from_distance(
                          input.self, input.distances))
    /\ UNCHANGED <<input, next_file, session_data, all_sessions, parses>>
    /\ UNCHANGED <<parserVars, watcherVars, monitorVars>>

NextQuality == Classify

SpecQuality == InitQuality /\ [][NextQuality]_vars

QualityRank(category) ==
    CASE category = "Excellent" -> 3
      [] category = "Good" -> 2
      [] category = "Average" -> 1
      [] category = "Poor" -> 0

\* C19: for every pixel scale and every triple of pixel thresholds, in any
\* order, and on the arcsecond path, a larger average distance never gets
\* a better-ranked category: Excellent > Good > Average > Poor.
C19_QualityMonotone ==
    output # None =>
        \A ds \in DistanceLists :
            ~RatLess(RatAvg(ds), RatAvg(input.distances)) =>
                QualityRank(_calculate_guide_quality_from_distance(
                                input.self, ds))
                    <= QualityRank(Get(output))

\* Thresholds out of order on the pixel path: Excellent below 1.0 px, Good
\* below 0.5 px, Average below 1.5 px, and a distance of 1.2 px
C19_Witness ==
    /\ output = Some("Average")
    /\ input.self.pixel_scale_arcsec = Some(25)
    /\ input.self.guide_quality_thresholds
          = [excellent_px |-> 10, good_px |-> 5, average_px |-> 15]
    /\ input.distances = << Rat(3, 1) >>

(***************************************************************************)
(* SpecWeighted: one chronological file of captures and guide samples      *)
(***************************************************************************)
GuideStatsLine(t, dx, dy, distance, rms) ==
    Join(<<"GuideStats", ToString(t), dx, dy, "0", "0", distance, rms>>)

\* The lines a file is drawn from, in the order of their offsets
WeightedLines ==
    << Join(<<"CaptureStarting", "10", "60", "L">>),
       GuideStatsLine(20, "3", "4", "5", "1"),
       BatchCaptureLine(50, "60", "L", "2"),
       GuideStatsLine(50, "0", "2", "2", "3"),
       BatchCaptureLine(100, "60", "L", "4"),
       BatchCaptureLine(100, "60", "L", "0"),
       GuideStatsLine(100, "12", "0", "12", "0"),
       BatchCaptureLine(3601, "60", "L", "6"),
       GuideStatsLine(3601, "0", "1", "1", "2"),
       GuideStatsLine(3601, "12", "0", "12", "2"),
       BatchCaptureLine(7201, "60", "R", "0") >>

\* The lines of the chosen positions, in order
RECURSIVE Pick(_, _, _)
Pick(all_lines, chosen, i) ==
    IF i > Len(all_lines) THEN <<>>
    ELSE (IF i \in chosen THEN << all_lines[i] >> ELSE <<>>)
         \o Pick(all_lines, chosen, i + 1)

InitWeighted ==
    InitAggregate(
        { << [filepath |-> File1, lines |-> Pick(WeightedLines, chosen, 1)] >> :
              chosen \in { c \in SUBSET (1..Len(WeightedLines)) :
                               Cardinality(c) <= MaxWeightedLines } })

SpecWeighted == InitWeighted /\ [][NextAggregate]_vars

\* sum over the sub-sessions of average x measurement count
WeightedSum(averages, measurements) ==
    RatSum([i \in 1..Len(averages) |->
               IF measurements[i] = 0 THEN Rat(0, 1)
               ELSE RatTimes(averages[i], measurements[i])])

SubAverages(subs, stats) ==
    [i \in 1..Len(subs) |->
        IF subs[i][stats].avg = None THEN Rat(0, 1)
        ELSE Get(subs[i][stats].avg)]
SubCounts(subs, stats) == [i \in 1..Len(subs) |-> subs[i][stats].measurements]

\* The global average of hfr_stats or fwhm_stats is the weighted average of
\* the sub-sessions, absent without measurements
GlobalIsWeighted(analysis, global, stats) ==
    LET subs == analysis.sub_sessions
        total == Total(SubCounts(subs, stats))
    IN  /\ analysis[global].measurements = total
        /\ IF total = 0 THEN analysis[global].avg = None
           ELSE analysis[global].avg =
                    Some(RatOver(WeightedSum(SubAverages(subs, stats),
                                             SubCounts(subs, stats)),
                                 total))

\* The same for the guide distance: 0.0 and No Data without measurements
GuideIsWeighted(analysis) ==
    LET subs == analysis.sub_sessions
        counts == [i \in 1..Len(subs) |-> subs[i].guide_stats.measurements]
        total == Total(counts)
    IN  /\ analysis.global_guide_stats.total_measurements = total
        /\ IF total = 0
           THEN /\ analysis.global_guide_stats.avg_distance = Rat(0, 1)
                /\ analysis.global_guide_stats.guide_quality = "No Data"
           ELSE analysis.global_guide_stats.avg_distance =
                    RatOver(WeightedSum(
                                [i \in 1..Len(subs) |->
                                    subs[i].guide_stats.avg_distance],
                                counts),
                            total)

\* The average and the count of a sub-session are those of the values of
\* its captures
SubStatsOfCaptures(analysis, stats, key) ==
    \A i \in 1..Len(analysis.sub_sessions) :
        LET sub == analysis.sub_sessions[i]
            values == Values(sub.captures, key)
        IN  /\ sub[stats].measurements = Len(values)
            /\ sub[stats].avg = IF values = <<>> THEN None
                                ELSE Some(Rat(Total(values), Len(values)))

\* Two L captures with an HFR, at 50 and 100, and nothing else on filter L
TwoCaptures ==
    /\ Len(input) = 1
    /\ SelectSeq(input[1].lines, LAMBDA l : Split(l, ",")[1] # <<"GuideStats">>)
       = << WeightedLines[3], WeightedLines[5] >>

\* C20: for every filter of the report, the global HFR, FWHM and guide
\* distance averages are the sum over the sub-sessions of average x
\* measurement count divided by the sum of the measurement counts; with no
\* measurement the average is absent (0.0 and No Data for guiding).  Two L
\* captures with HFR 2 and 4 in one file give the average 3, one
\* sub-session and total_captures 2.
C20_WeightedAverages ==
    HasReport =>
        /\ \A f \in DOMAIN Get(output).filter_analysis :
             LET analysis == Get(output).filter_analysis[f] IN
             /\ GlobalIsWeighted(analysis, "global_hfr_stats", "hfr_stats")
             /\ GlobalIsWeighted(analysis, "global_fwhm_stats", "fwhm_stats")
             /\ GuideIsWeighted(analysis)
             /\ SubStatsOfCaptures(analysis, "hfr_stats", "hfr")
             /\ SubStatsOfCaptures(analysis, "fwhm_stats", "fwhm")
        /\ TwoCaptures =>
             LET analysis == Get(output).filter_analysis[<<"L">>] IN
             /\ analysis.global_hfr_stats.avg = Some(Rat(3, 1))
             /\ analysis.total_sub_sessions = 1
             /\ analysis.total_captures = 2

\* Filter L with sub-sessions of two and one HFR measurements (averages 3
\* and 6, global 4) and of two and one guide samples (averages 2 and 1,
\* global 5/3); filter R without any measurement
C20_Witness ==
    /\ HasReport
    /\ DOMAIN Get(output).filter_analysis = {<<"L">>, <<"R">>}
    /\ LET analysis == Get(output).filter_analysis[<<"L">>]
           subs == analysis.sub_sessions
       IN  /\ Len(subs) = 2
           /\ SubCounts(subs, "hfr_stats") = <<2, 1>>
           /\ SubAverages(subs, "hfr_stats") = << Rat(3, 1), Rat(6, 1) >>
           /\ analysis.global_hfr_stats.avg = Some(Rat(4, 1))
           /\ analysis.global_fwhm_stats.avg = Some(Rat(48, 1))
           /\ subs[1].guide_stats.measurements = 2
           /\ subs[1].guide_stats.avg_distance = Rat(2, 1)
           /\ subs[2].guide_stats.measurements = 1
           /\ analysis.global_guide_stats.avg_distance = Rat(5, 3)
    /\ LET analysis == Get(output).filter_analysis[<<"R">>]
       IN  /\ analysis.global_hfr_stats.avg = None
           /\ analysis.global_guide_stats.guide_quality = "No Data"

(***************************************************************************)
(* SpecDuration: files with or without a session start                     *)
(***************************************************************************)
DurationLines ==
    { StartLine,
      Join(<<"AnalyzeStartTime", "yesterday", "UTC">>),
      BatchCaptureLine(1, "60", "L", "2"),
      BatchCaptureLine(3601, "60", "L", "2") }

InitDuration ==
    InitAggregate(
        { << [filepath |-> File1, lines |-> ls] >> :
              ls \in LinesUpTo(DurationLines, MaxDurationLines) }
        \cup
        { << [filepath |-> File1, lines |-> ls],
             [filepath |-> File2, lines |-> <<l>>] >> :
              ls \in LinesUpTo(DurationLines, MaxDurationLines - 1),
              l \in DurationLines })

SpecDuration == InitDuration /\ [][NextAggregate]_vars

\* The completed captures of all the sessions of a report
ReportCaptures(report) ==
    Concat([k \in 1..Len(report.sessions) |->
               Completed(report.sessions[k].captures)])

\* C21: a report none of whose sessions has a parseable start still has a
\* session_duration, the span of its capture timestamps in hours, with a
\* mark beyond start, end and duration_hours that tells it is an estimate.
C21_DurationEstimated ==
    ( /\ HasReport
      /\ ReportCaptures(Get(output)) # <<>>
      /\ \A k \in 1..Len(Get(output).sessions) :
             IsNone(StartTime(Get(output).sessions[k])) )
    => /\ ~IsNone(Get(output).session_duration)
       /\ Get(Get(output).session_duration).duration_hours
            = Rat(MaxTimestamp(ReportCaptures(Get(output)))
                  - MinTimestamp(ReportCaptures(Get(output))), 3600)
       /\ DOMAIN Get(Get(output).session_duration)
            \ {"start", "end", "duration_hours"} # {}

\* The completed captures parsed from the files given
CompletedOfInput ==
    Concat([k \in 1..Len(input) |->
               Completed(parse_analyze_file(input[k].filepath,
                                            input[k].lines).captures)])

\* C23: files that amount to no session, or to no completed capture at
\* all, give the empty report {}.
C23_EmptyReport ==
    (output # None /\ CompletedOfInput = <<>>) => Get(output) = <<>>

(***************************************************************************)
(* SpecReparse: direct calls of parse_analyze_file before and after an     *)
(* aggregation of the same files                                           *)
(***************************************************************************)
InitReparse ==
    InitAggregate(
        { << [filepath |-> File1, lines |-> ls] >> :
              ls \in LinesUpTo(BackfillLines, MaxReparseLines) }
        \cup
        { << [filepath |-> File1, lines |-> ls],
             [filepath |-> File2, lines |-> <<l>>] >> :
              ls \in LinesUpTo(BackfillLines, MaxReparseLines),
              l \in { AutofocusLine(1, "R", "4", "0"),
                       BatchCaptureLine(7200, "60", "R", "0") } })

\* session = analyzer.parse_analyze_file(filepath), called by a client when
\* no aggregation is under way
ParseCall ==
    /\ Len(parses) < MaxParseCalls
    /\ session_data = None
    /\ next_file = 1 \/ output # None
    /\ \E k \in 1..Len(input) :
         parses' = Append(parses,
                          [ filepath   |-> input[k].filepath,
                            aggregated |-> output # None,
                            session    |->
                                parse_analyze_file(input[k].filepath,
                                                   input[k].lines) ])
    /\ UNCHANGED <<input, next_file, session_data, all_sessions, output>>
    /\ UNCHANGED <<parserVars, watcherVars, monitorVars>>

NextReparse == ParseFile \/ Associate \/ Aggregate \/ ParseCall

SpecReparse == InitReparse /\ [][NextReparse]_vars

Groups ==
    { <<position, "|", hfr, "|", "1", "|", outlier>> :
          position \in {"0", "100"},
          hfr \in {"0", "2", "3", "20", "21", "abc"},
          outlier \in {"0", "1"} }

RECURSIVE Payloads(_)
Payloads(n) ==
    IF n = 0 THEN {<<>>}
    ELSE Payloads(n - 1)
         \cup { IF p = <<>> THEN g ELSE p \o <<"|">> \o g :
                    p \in Payloads(n - 1) \ {<<>>}, g \in Groups }
         \cup Groups

\* What follows the payload: nothing, a solution, or another section of
\* three groups
Trailers ==
    { <<>>,
      << <<"Solution:", " ", "100">> >>,
      << <<"Solution:", " ", "0">> >>,
      << <<"100", "|", "5", "|", "1", "|", "0", "|",
           "100", "|", "5", "|", "1", "|", "0", "|",
           "100", "|", "5", "|", "1", "|", "0">> >> }

ExtractLine(payload, trailer) ==
    JoinParts(<< <<"AutofocusComplete">>, <<"10">>, <<"5">>, <<"50">>,
                 <<"Done">>, <<"L">>, payload >> \o trailer)

InitExtract ==
    InitAggregate(
        { << [filepath |-> File1,
              lines |-> << ExtractLine(payload, trailer) >>] >> :
              payload \in Payloads(MaxGroups), trailer \in Trailers })

SpecExtract == InitExtract /\ [][NextAggregate]_vars

\* The fields of the payload and the solution position of a line
PayloadFields(line) == Split(Part(Split(line, ","), 6), "|")
SolutionOf(line) ==
    LET parts == Split(line, ",") IN
    IF Len(parts) > 7 THEN SolutionPosition(parts[Len(parts)]) ELSE None

\* The valid samples of the payload: complete groups of four numeric
\* fields with outlier flag 0 and 0.5 <= hfr <= 20
ValidGroups(fields) ==
    { g \in 0..((Len(fields) \div 4) - 1) :
        /\ \A k \in 1..4 : CanFloat(fields[4 * g + k])
        /\ Float(fields[4 * g + 4]) = 0
        /\ 1 <= 2 * Float(fields[4 * g + 2])
        /\ Float(fields[4 * g + 2]) <= 20 }

\* best_hfr as stated: at the solution position if a valid sample is
\* there, else the least, absent without a valid sample
StatedBest(line) ==
    LET fields == PayloadFields(line)
        valid == ValidGroups(fields)
        hfr(g) == Float(fields[4 * g + 2])
        at == IF IsNone(SolutionOf(line)) THEN {}
              ELSE {g \in valid :
                        Float(fields[4 * g + 1]) = Get(SolutionOf(line))}
    IN  IF valid = {} THEN None
        ELSE IF at # {}
        THEN Some(hfr(CHOOSE g \in at : \A h \in at : g <= h))
        ELSE Some(CHOOSE v \in {hfr(g) : g \in valid} :
                      \A g \in valid : v <= hfr(g))

\* C26: the autofocus run parsed from the line has as hfr_values the valid
\* samples of the payload, in order, and as best_hfr the hfr of the valid
\* sample at the solution position if there is one, else the least hfr of
\* the valid samples, and none without a valid sample.
C26_BestHfr ==
    session_data # None =>
        LET af == Get(session_data).autofocus_sessions[1]
            line == input[1].lines[1]
        IN  /\ Len(af.hfr_values) = Cardinality(ValidGroups(PayloadFields(line)))
            /\ af.best_hfr = StatedBest(line)

\* The CaptureStarting events of the report that match a sub-session: of
\* its filter and less than 1200 s from one of its captures
MatchingStarts(report, sub) ==
    LET all_events ==
            Concat([k \in 1..Len(report.sessions) |->
                       report.sessions[k].captures])
    IN  { all_events[j].timestamp : j \in
            { j \in 1..Len(all_events) :
                /\ all_events[j].event = "starting"
                /\ \E i \in 1..Len(sub.captures) :
                      /\ all_events[j].filter = sub.captures[i].filter
                      /\ Abs(sub.captures[i].timestamp
                             - all_events[j].timestamp) < 1200 } }

\* The guide samples of the report inside the stated window of a
\* sub-session, each one once
SamplesInWindow(report, sub) ==
    LET lows == MatchingStarts(report, sub) \cup {sub.start_timestamp}
        low == (CHOOSE t \in lows : \A u \in lows : t <= u) - 30
        high == sub.end_timestamp + 30
    IN  SelectSeq(Concat([k \in 1..Len(report.sessions) |->
                             report.sessions[k].guide_stats]),
                  LAMBDA g : low <= g.timestamp /\ g.timestamp <= high)

\* C27: the guide statistics of every sub-session are those of exactly the
\* guide samples whose timestamp lies in [min(first capture, earliest
\* matching CaptureStarting) - 30, last capture + 30], each counted once.
C27_GuideWindow ==
    HasReport =>
        \A f \in DOMAIN Get(output).filter_analysis :
            LET subs == Get(output).filter_analysis[f].sub_sessions IN
            \A i \in 1..Len(subs) :
                subs[i].guide_stats
                    = GuideStats(DefaultAnalyzer,
                                 SamplesInWindow(Get(output), subs[i]))

(***************************************************************************)
(* SpecSamples: the guide statistics of the samples of a sub-session       *)
(***************************************************************************)
\* Samples at 1, 2, 3, 5, 10 and 11 arcseconds
Samples ==
    { [timestamp |-> 0, dx |-> d[1], dy |-> d[2], rms |-> 0] :
          d \in {<<0, 1>>, <<0, 2>>, <<3, 0>>, <<3, 4>>, <<6, 8>>, <<0, 11>>} }

Analyzers ==
    { NewAnalyzer(ps, th) :
          ps \in {None, Some(10), Some(25)},
          th \in {None, Some([excellent_px |-> 10, good_px |-> 5,
                              average_px |-> 15])} }

InitSamples ==
    /\ input \in { [self |-> a, guide_data |-> gs] :
                       a \in Analyzers, gs \in LinesUpTo(Samples, MaxSamples) }
    /\ next_file = 1
    /\ session_data = None
    /\ all_sessions = <<>>
    /\ output = None
    /\ parses = <<>>
    /\ NoParser
    /\ NoWatcher
    /\ NoMonitor

\* metrics['guide_stats'] of _calculate_sub_session_metrics
Measure ==
    /\ output = None
    /\ output' = Some(GuideStats(input.self, input.guide_data))
    /\ UNCHANGED <<input, next_file, session_data, all_sessions, parses>>
    /\ UNCHANGED <<parserVars, watcherVars, monitorVars>>

NextSamples == Measure

SpecSamples == InitSamples /\ [][NextSamples]_vars

\* The category stated for the distance total / count: against the pixel
\* thresholds (tenths of a pixel) with a scale (tenths of an arcsecond per
\* pixel), against 1, 2 and 3 arcseconds without, with strict comparisons
StatedQuality(self, total, count) ==
    LET s == self.pixel_scale_arcsec
        th == self.guide_quality_thresholds
        below_px(t) == 100 * total < t * Get(s) * count
        below(k) == total < k * count
    IN  IF ~IsNone(s) /\ Get(s) > 0
        THEN CASE below_px(th.excellent_px) -> "Excellent"
               [] ~below_px(th.excellent_px) /\ below_px(th.good_px) -> "Good"
               [] ~below_px(th.excellent_px) /\ ~below_px(th.good_px)
                  /\ below_px(th.average_px) -> "Average"
               [] OTHER -> "Poor"
        ELSE CASE below(1) -> "Excellent"
               [] ~below(1) /\ below(2) -> "Good"
               [] ~below(2) /\ below(3) -> "Average"
               [] OTHER -> "Poor"

\* C28: the guide statistics average the distances sqrt(dx^2 + dy^2) of
\* the samples that are at most 10 arcseconds, and classify that average:
\* in pixels against excellent_px, good_px and average_px when a positive
\* scale is configured, in arcseconds against 1.0, 2.0 and 3.0 otherwise,
\* a value equal to a threshold falling in the worse category.
C28_QualityOfSamples ==
    output # None =>
        LET gs == input.guide_data
            kept == {i \in 1..Len(gs) :
                        gs[i].dx * gs[i].dx + gs[i].dy * gs[i].dy <= 100}
            dist == [i \in 1..Len(gs) |->
                        IF i \in kept
                        THEN Sqrt(gs[i].dx * gs[i].dx + gs[i].dy * gs[i].dy)
                        ELSE 0]
        IN  IF kept = {}
            THEN Get(output).guide_quality = "No Data"
            ELSE /\ Get(output).avg_distance
                      = Rat(Total(dist), Cardinality(kept))
                 /\ Get(output).guide_quality
                      = StatedQuality(input.self, Total(dist),
                                      Cardinality(kept))

\* A scale of 1.0 arcsec per pixel and the default thresholds: the samples
\* at 1 and 11 arcseconds average 1.0 px once the second is excluded, which
\* equals good_px and is classified Average
C28_Witness ==
    /\ output # None
    /\ input.self = NewAnalyzer(Some(10), None)
    /\ Len(input.guide_data) = 2
    /\ input.guide_data[1].dy = 1
    /\ input.guide_data[2].dy = 11
    /\ Get(output).avg_distance = Rat(1, 1)
    /\ Get(output).guide_quality = "Average"

(***************************************************************************)
(* SpecAbsolute: one filter captured in two sessions of different starts   *)
(***************************************************************************)
LateStartLine == Join(<<"AnalyzeStartTime", "2025-01-01 23:59:30", "UTC">>)

AbsoluteLines ==
    { StartLine,
      BatchCaptureLine(1, "60", "L", "2"),
      BatchCaptureLine(3601, "60", "L", "2") }

SecondFiles ==
    { <<LateStartLine, BatchCaptureLine(1800, "60", "L", "2")>>,
      <<LateStartLine, BatchCaptureLine(1801, "60", "L", "2")>>,
      <<StartLine, BatchCaptureLine(1800, "60", "L", "2")>> }

InitAbsolute ==
    InitAggregate(
        { << [filepath |-> File1, lines |-> ls],
             [filepath |-> File2, lines |-> second] >> :
              ls \in LinesUpTo(AbsoluteLines, MaxAbsoluteLines),
              second \in SecondFiles })

SpecAbsolute == InitAbsolute /\ [][NextAggregate]_vars

\* The sessions of a report that hold a completed capture of the timestamp
HoldersOf(report, capture) ==
    { k \in 1..Len(report.sessions) :
        \E i \in 1..Len(report.sessions[k].captures) :
            /\ report.sessions[k].captures[i].event = "complete"
            /\ report.sessions[k].captures[i].timestamp = capture.timestamp }

\* The start of the session of a capture plus the offset of the capture
AbsoluteTime(report, capture) ==
    Get(StartTime(report.sessions[CHOOSE k \in HoldersOf(report, capture) :
                                      TRUE]))
    + capture.timestamp

\* The absolute times of all the captures of a filter of a report
AbsoluteTimes(report, f) ==
    LET subs == report.filter_analysis[f].sub_sessions
    IN  UNION { { AbsoluteTime(report, subs[n].captures[i]) :
                    i \in 1..Len(subs[n].captures) } : n \in 1..Len(subs) }

\* Two times are linked in a set of times when no step of the chain from
\* the earlier to the later is longer than 1800 s
Linked(a, b, times) ==
    LET lo == IF a <= b THEN a ELSE b
        hi == IF a <= b THEN b ELSE a
    IN  \A x \in times :
            (lo <= x /\ x < hi)
            => \E y \in times : x < y /\ y <= x + 1800

\* C30: in a report whose sessions all have a start, two captures of one
\* sub-session that come from different sessions are linked by a chain of
\* captures of the filter whose absolute-time gaps are at most 1800 s.
C30_AbsoluteSegmentation ==
    ( /\ HasReport
      /\ \A k \in 1..Len(Get(output).sessions) :
             ~IsNone(StartTime(Get(output).sessions[k])) )
    => LET report == Get(output) IN
       \A f \in DOMAIN report.filter_analysis :
       \A n \in 1..Len(report.filter_analysis[f].sub_sessions) :
           LET caps == report.filter_analysis[f].sub_sessions[n].captures
           IN  \A i, j \in 1..Len(caps) :
                   HoldersOf(report, caps[i]) # HoldersOf(report, caps[j])
                   => Linked(AbsoluteTime(report, caps[i]),
                             AbsoluteTime(report, caps[j]),
                             AbsoluteTimes(report, f))

(***************************************************************************)
(* SpecAttribution: two sessions, one per filter, of different starts      *)
(***************************************************************************)
AttributionLines ==
    { StartLine,
      BatchCaptureLine(1, "60", "L", "2"),
      BatchCaptureLine(3601, "60", "L", "2") }

AttributedFiles ==
    { <<LateStartLine, BatchCaptureLine(1, "60", "R", "2")>>,
      <<LateStartLine, BatchCaptureLine(1800, "60", "R", "2")>>,
      <<StartLine, BatchCaptureLine(1, "60", "R", "2")>> }

InitAttribution ==
    InitAggregate(
        { << [filepath |-> File1, lines |-> ls],
             [filepath |-> File2, lines |-> second] >> :
              ls \in LinesUpTo(AttributionLines, MaxAbsoluteLines),
              second \in AttributedFiles })

SpecAttribution == InitAttribution /\ [][NextAggregate]_vars

\* The sessions of a report a capture was parsed from: those that hold
\* this very capture
ParsedFrom(report, capture) ==
    { k \in 1..Len(report.sessions) :
        \E i \in 1..Len(report.sessions[k].captures) :
            Untagged(report.sessions[k].captures[i]) = Untagged(capture) }

\* The sub-session's captures all come from session k alone
ComesFrom(report, sub, k) ==
    \A i \in 1..Len(sub.captures) : ParsedFrom(report, sub.captures[i]) = {k}

\* C31: a sub-session whose captures come from one session with a parseable
\* start reports as start and end times the clock times of that session's
\* start plus the offsets of its first and last capture.
C31_TimesOfOwnSession ==
    HasReport =>
      LET report == Get(output) IN
      \A f \in DOMAIN report.filter_analysis :
      \A n \in 1..Len(report.filter_analysis[f].sub_sessions) :
      \A k \in 1..Len(report.sessions) :
          LET sub == report.filter_analysis[f].sub_sessions[n] IN
          ( ComesFrom(report, sub, k)
            /\ ~IsNone(StartTime(report.sessions[k])) )
          => /\ sub.start_time_formatted
                  = TimeFormatted(StartTime(report.sessions[k]),
                                  sub.start_timestamp)
             /\ sub.end_time_formatted
                  = TimeFormatted(StartTime(report.sessions[k]),
                                  sub.end_timestamp)

(***************************************************************************)
(* SpecEvents: sessions whose last event is not a capture                  *)
(***************************************************************************)
EventLines ==
    { StartLine,
      BatchCaptureLine(1, "60", "L", "2"),
      BatchCaptureLine(10, "60", "L", "2"),
      AutofocusLine(50, "L", "2", "0") }

InitEvents ==
    InitAggregate(
        { << [filepath |-> File1, lines |-> ls] >> :
              ls \in LinesUpTo(EventLines, MaxEventLines) }
        \cup
        { << [filepath |-> File1, lines |-> ls],
             [filepath |-> File2,
              lines |-> <<LateStartLine, AutofocusLine(50, "L", "2", "0")>>] >> :
              ls \in LinesUpTo(EventLines, MaxEventLines - 1) })

SpecEvents == InitEvents /\ [][NextAggregate]_vars

\* The lists of a session whose entries are events with a time offset
EventFields ==
    { "captures", "autofocus_sessions", "temperature_readings",
      "mount_coords", "mount_states", "guide_stats", "guide_states",
      "align_states", "scheduler_jobs" }

\* The offsets of all the events of a session
EventOffsets(session) ==
    UNION { { session[field][i].timestamp : i \in 1..Len(session[field]) } :
            field \in EventFields }

\* The sessions of a report that have a parseable start
TimedSessions(report) ==
    { k \in 1..Len(report.sessions) : ~IsNone(StartTime(report.sessions[k])) }

\* The latest, over the timed sessions, of start + maximum event offset
LatestEventEnd(report) ==
    LET ends == UNION { { Get(StartTime(report.sessions[k])) + t :
                            t \in EventOffsets(report.sessions[k]) } :
                        k \in TimedSessions(report) }
    IN  CHOOSE t \in ends : \A u \in ends : t >= u

EarliestStart(report) ==
    LET starts == { Get(StartTime(report.sessions[k])) :
                      k \in TimedSessions(report) }
    IN  CHOOSE t \in starts : \A u \in starts : t <= u

\* C32: with a session of parseable start, session_duration runs from the
\* earliest start to the latest of start + maximum event offset, the
\* maximum taken over all the events of the session, captures or not.
C32_DurationOverAllEvents ==
    ( /\ HasReport
      /\ TimedSessions(Get(output)) # {}
      /\ \E k \in TimedSessions(Get(output)) :
             EventOffsets(Get(output).sessions[k]) # {} )
    => /\ ~IsNone(Get(output).session_duration)
       /\ Get(Get(output).session_duration).duration_hours
            = Rat(LatestEventEnd(Get(output)) - EarliestStart(Get(output)),
                  3600)

(***************************************************************************)
(* SpecGuide: GuideState lines of all kinds, and resets                    *)
(***************************************************************************)
StreamTimes == {40, 50, 80}
StreamLines ==
    {GuideLine(t, st) : t \in StreamTimes,
                        st \in {"Guiding", "Aborted", "Reacquiring"}}
    \cup {GuideLine(80, "Idle")}
StreamConfigs == {Config(30, 2, 30), Config(0, 2, 30)}

InitGuide == InitParser(StreamConfigs)

FeedGuide ==
    /\ Len(lines) < MaxStreamLines
    /\ \E l \in StreamLines : ProcessLine(l)

\* parser.reset(), as run() calls it when it switches to a new file; the
\* lines and events kept are those of the parser since its last reset
ResetParser ==
    /\ lines # <<>>
    /\ parser' = reset
    /\ lines' = <<>>
    /\ events' = <<>>
    /\ UNCHANGED <<config, watcherVars, monitorVars, batchVars>>

NextGuide == FeedGuide \/ ResetParser

SpecGuide == InitGuide /\ [][NextGuide]_vars

\* C35: whenever the lost-alerted flag is set a loss start time is recorded,
\* and whenever the guiding-active flag is set none is.
C35_GuideFlagsConsistent ==
    /\ parser.guide_lost_alerted => ~IsNone(parser.guide_lost_time)
    /\ parser.guiding_active => IsNone(parser.guide_lost_time)

\* A loss was alerted and is still open
C35_Witness ==
    /\ parser.guide_lost_alerted
    /\ ~IsNone(parser.guide_lost_time)
    /\ Len(lines) = MaxStreamLines

\* The subtypes lost / recovered of the notifications since the last reset,
\* in the order emitted
LostAndRecovered ==
    LET all == Flatten(events)
        kept == SelectSeq(all, LAMBDA e : e.subtype \in {"lost", "recovered"})
    IN  [i \in 1..Len(kept) |-> kept[i].subtype]

\* C36: since the last reset the notifications lost and recovered alternate,
\* starting with lost.
C36_LostRecoveredAlternate ==
    \A i \in 1..Len(LostAndRecovered) :
        LostAndRecovered[i] = IF i % 2 = 1 THEN "lost" ELSE "recovered"

\* A loss was alerted, recovered, and a second loss was alerted
C36_Witness == LostAndRecovered = <<"lost", "recovered", "lost">>

\* The lines since the last reset that emitted frequent_reacquire
ReacquireAlerts ==
    {i \in 1..Len(lines) : HasEvent(i, "guide_problem", "frequent_reacquire")}

\* The Reacquiring lines up to line i with a time in (t - window, t], t
\* the time of line i
ReacquiringInWindow(i) ==
    {j \in 1..i :
        /\ LineArg(lines[j]) = "Reacquiring"
        /\ LineTime(lines[j]) > LineTime(lines[i])
                                  - config.reacquire_alert_window
        /\ LineTime(lines[j]) <= LineTime(lines[i])}

PartitionLines ==
    { JobLine_(0, <<"M31">>), JobLine_(500, <<"M33">>),
      Join(<<"CaptureStarting", "10", "60", "L">>),
      BatchCaptureLine(100, "60", "R", "2"),
      BatchCaptureLine(100, "60", "L", "2"),
      BatchCaptureLine(3601, "60", "R", "2") }

InitPartition ==
    InitAggregate(
        { << [filepath |-> File1, lines |-> ls],
             [filepath |-> File2, lines |-> <<l>>] >> :
              ls \in LinesUpTo(PartitionLines, MaxPartitionLines),
              l \in { BatchCaptureLine(100, "60", "R", "2"),
                      BatchCaptureLine(7200, "60", "L", "2") } })

SpecPartition == InitPartition /\ [][NextAggregate]_vars

\* How many times each capture occurs in a list
Occurrences(captures) ==
    [ c \in {captures[i] : i \in 1..Len(captures)} |->
        Cardinality({i \in 1..Len(captures) : captures[i] = c}) ]

\* The captures of all the groups of a report
GroupedCaptures(report) ==
    Concat([i \in 1..Len(report.capture_summary) |->
               report.capture_summary[i].captures])

\* The captures of all the sub-sessions of a filter of a report
SegmentedCaptures(report, f) ==
    Concat([n \in 1..Len(report.filter_analysis[f].sub_sessions) |->
               report.filter_analysis[f].sub_sessions[n].captures])

\* The sum of the capture_count of the sub-sessions of a filter
SubSessionCount(report, f) ==
    Total([n \in 1..Len(report.filter_analysis[f].sub_sessions) |->
              report.filter_analysis[f].sub_sessions[n].capture_count])

RECURSIVE SumOver(_, _)
SumOver(count, keys) ==
    IF keys = {} THEN 0
    ELSE LET k == CHOOSE x \in keys : TRUE
         IN  count[k] + SumOver(count, keys \ {k})

\* C40: the completed captures of the sessions of a report are, each as
\* many times as it occurs, the captures of the groups of capture_summary,
\* each in a group of its filter, and per filter the captures of the
\* sub-sessions; total_captures is their number, the sum of the group
\* sizes, of the total_captures of the filters and of the capture_count of
\* all the sub-sessions.
C40_CapturesPartitioned ==
    HasReport =>
      LET report == Get(output)
          all == ReportCaptures(report)
          filters == DOMAIN report.filter_analysis
      IN  /\ Occurrences(GroupedCaptures(report)) = Occurrences(all)
          /\ \A i \in 1..Len(report.capture_summary) :
             \A j \in 1..Len(report.capture_summary[i].captures) :
                 report.capture_summary[i].captures[j].filter
                   = report.capture_summary[i].key[2]
          /\ filters = {all[i].filter : i \in 1..Len(all)}
          /\ \A f \in filters :
                 Occurrences(SegmentedCaptures(report, f))
                   = Occurrences(SelectSeq(all, LAMBDA c : c.filter = f))
          /\ report.total_captures = Len(all)
          /\ report.total_captures = Len(GroupedCaptures(report))
          /\ report.total_captures
               = SumOver([f \in filters |->
                             report.filter_analysis[f].total_captures],
                         filters)
          /\ report.total_captures
               = SumOver([f \in filters |-> SubSessionCount(report, f)],
                         filters)

\* Two sessions, two groups of one filter, a filter with two sub-sessions,
\* a capture that occurs twice
C40_Witness ==
    /\ HasReport
    /\ Len(Get(output).sessions) = 2
    /\ Get(output).total_captures = 4
    /\ Len(Get(output).capture_summary) >= 2
    /\ <<"R">> \in DOMAIN Get(output).filter_analysis
    /\ Len(Get(output).filter_analysis[<<"R">>].sub_sessions) = 2
    /\ \E c \in DOMAIN Occurrences(ReportCaptures(Get(output))) :
           Occurrences(ReportCaptures(Get(output)))[c] = 2

====
